---- MODULE Spec2Model ----
(***************************************************************************)
(* pydbal: the Connection transaction state machine (connection.py) and    *)
(* the SafeConnection pool (threading.py).                                  *)
(*                                                                         *)
(* A Connection is a record; every method of Connection is an operator on  *)
(* an "execution state" [c, err, k, stmts]: c is the connection, err the    *)
(* exception in flight ("none" when there is none), k the countdown to the  *)
(* driver call that fails (0: none fails) and stmts the transaction         *)
(* statements the method has sent to the driver so far.  A                  *)
(* statement of a method runs only while err = "none", which is how an      *)
(* exception leaves the method in Python.                                   *)
(***************************************************************************)
EXTENDS Integers, Sequences, FiniteSets, TLC

\* ---- bounds ----
MaxNesting == 3
MaxFailAt == 2
NumThreads == 2
PoolMaxSize == 2
MaxSqlLen == 4
MaxArgs == 1
MaxCalls == 3
MaxFrom == 2
MaxJoins == 2
MaxParamCalls == 3
MaxWhereCalls == 3

Threads == 1..NumThreads
ConnIds == 1..PoolMaxSize
FailPoints == 0..MaxFailAt
CallbackErrors == {"AppError"}

VARIABLES
    conn,        \* ConnIds -> Connection record
    pool,        \* SafeConnection._pool: constructed connection -> locked flag
    pool_size,   \* SafeConnection._pool_size
    lock_owner,  \* SafeConnection.LOCK: 0 when free, else the owning thread
    pc,          \* position of each thread
    held,        \* the connection a thread got from _get_connection (0: none)
    seen,        \* the pool entries the thread's current scan has passed
    txn,         \* per thread: the Connection.transaction call it is inside
    params,      \* constructor arguments of the connections
    scenario,    \* history: progress of the run begin; begin; rollback; commit
    raised,      \* history: some Connection call has raised
    last,        \* history: the Connection call of the last step, its outcome
    sb,          \* a SQLBuilder
    query,       \* the arguments of a call of Statement.execute,
                 \* Connection.update or Connection.delete
    calls,       \* the number of mutator calls made on the builder, of calls
                 \* made on the driver or on the memoized methods
    ret,         \* history: the last call on the builder, with the query, on
                 \* the driver or on a memoized method
    drv,         \* a MySQLDriver or SQLiteDriver
    client,      \* the client library under the driver: its open connections
                 \* and cursors
    cache,       \* pydbal.cache._cache
    cexpr        \* a CompositeExpression

vars == <<conn, pool, pool_size, lock_owner, pc, held, seen, txn, params,
          scenario, raised, last, sb, query, calls, ret, drv, client,
          cache, cexpr>>

\* ---- driver statements ----
NoName == <<>>
Stmt(kind, name) == [kind |-> kind, name |-> name]
BEGIN_ == Stmt("BEGIN", NoName)
COMMIT_ == Stmt("COMMIT", NoName)
ROLLBACK_ == Stmt("ROLLBACK", NoName)

NoStmt == Stmt("none", NoName)

\* ---- Connection ----
NewFields(auto_connect, auto_commit, supported) ==
    [nesting |-> 0, rollback_only |-> FALSE, auto_commit |-> auto_commit,
     nest_with_savepoints |-> FALSE, connected |-> FALSE,
     auto_connect |-> auto_connect, savepoints_supported |-> supported,
     last_statement |-> NoStmt, opened |-> <<>>, in_transaction |-> FALSE]

Start(c, k) == [c |-> c, err |-> "none", k |-> k, stmts |-> <<>>]
Ok(s) == s.err = "none"
Raise(s, e) == IF Ok(s) THEN [s EXCEPT !.err = e] ELSE s

\* One fallible call into the driver.
fallible(s, e) ==
    IF s.k = 1 THEN [s EXCEPT !.err = e, !.k = 0]
    ELSE [s EXCEPT !.k = IF @ > 1 THEN @ - 1 ELSE 0]

\* Whether the session of the driver has a transaction open, after a
\* statement that the server has executed.
session_after(in_transaction, stmt) ==
    IF stmt.kind = "BEGIN" THEN TRUE
    ELSE IF stmt.kind \in {"COMMIT", "ROLLBACK"} THEN FALSE
    ELSE in_transaction

driver_execute(s, stmt) ==
    IF ~Ok(s) THEN s
    ELSE LET r == fallible([s EXCEPT !.c.last_statement = stmt,
                                     !.stmts = Append(@, stmt)],
                           "driver_error")
         IN  IF Ok(r)
             THEN [r EXCEPT !.c.in_transaction = session_after(@, stmt)]
             ELSE r

\* The session ends with the client connection, and its transaction with it.
driver_close(s) ==
    IF ~Ok(s) THEN s
    ELSE [s EXCEPT !.c.connected = FALSE, !.c.in_transaction = FALSE]

driver_connect(s) ==
    IF ~Ok(s) THEN s
    ELSE LET d == fallible(driver_close(s), "driver_exception")
         IN  IF Ok(d) THEN [d EXCEPT !.c.connected = TRUE] ELSE d

connect(s) == driver_connect(s)

close(s) == driver_close(s)

ensure_connected(s) ==
    IF ~Ok(s) \/ s.c.connected THEN s
    ELSE IF ~s.c.auto_connect THEN Raise(s, "connection_closed")
    ELSE connect(s)

\* Assignment to _transaction_nesting_level; opened remembers, per open
\* level, the savepoint policy in force when the level was opened.
set_nesting(s, n) ==
    IF ~Ok(s) THEN s
    ELSE [s EXCEPT !.c.nesting = n,
                   !.c.opened = IF n > Len(@)
                                THEN Append(@, s.c.nest_with_savepoints)
                                ELSE SubSeq(@, 1, n)]

\* Mutant: the name is taken from the depth below the current one.
savepoint_name_of_outer_level(c) == <<"PYDBAL_SAVEPOINT_", c.nesting - 1>>

_get_nested_transaction_savepoint_name(c) == <<"PYDBAL_SAVEPOINT_", c.nesting>>

create_savepoint(s, savepoint) ==
    IF ~Ok(s) THEN s
    ELSE IF ~s.c.savepoints_supported THEN Raise(s, "savepoints_not_supported")
    ELSE driver_execute(ensure_connected(s), Stmt("SAVEPOINT", savepoint))

release_savepoint(s, savepoint) ==
    IF ~Ok(s) THEN s
    ELSE IF ~s.c.savepoints_supported THEN Raise(s, "savepoints_not_supported")
    ELSE driver_execute(ensure_connected(s), Stmt("RELEASE SAVEPOINT", savepoint))

rollback_savepoint(s, savepoint) ==
    IF ~Ok(s) THEN s
    ELSE IF ~s.c.savepoints_supported THEN Raise(s, "savepoints_not_supported")
    ELSE driver_execute(ensure_connected(s), Stmt("ROLLBACK TO SAVEPOINT", savepoint))

begin_transaction(s) ==
    LET s1 == ensure_connected(s)
        s2 == set_nesting(s1, s1.c.nesting + 1)
    IN  IF ~Ok(s2) THEN s2
        ELSE IF s2.c.nesting = 1 THEN driver_execute(s2, BEGIN_)
        ELSE IF s2.c.nest_with_savepoints
             THEN create_savepoint(s2, _get_nested_transaction_savepoint_name(s2.c))
        ELSE s2

\* Mutant: the rollback-only flag is not checked.
commit_guard_without_flag(s) ==
    IF ~Ok(s) THEN s
    ELSE IF s.c.nesting = 0 THEN Raise(s, "no_active_transaction")
    ELSE s

commit_guard(s) ==
    IF ~Ok(s) THEN s
    ELSE IF s.c.nesting = 0 THEN Raise(s, "no_active_transaction")
    ELSE IF s.c.rollback_only THEN Raise(s, "commit_failed_rollback_only")
    ELSE s

\* Mutant: no new transaction is begun when auto_commit is off.
commit_without_begin(s) ==
    LET s1 == ensure_connected(commit_guard(s))
        s2 == IF ~Ok(s1) THEN s1
              ELSE IF s1.c.nesting = 1 THEN driver_execute(s1, COMMIT_)
              ELSE IF s1.c.nest_with_savepoints
                   THEN release_savepoint(s1, _get_nested_transaction_savepoint_name(s1.c))
              ELSE s1
    IN  set_nesting(s2, s2.c.nesting - 1)

\* Mutant: the rollback-only flag is checked after the driver has committed.
commit_checking_flag_last(s) ==
    LET s1 == ensure_connected(commit_guard_without_flag(s))
        s2 == IF ~Ok(s1) THEN s1
              ELSE IF s1.c.nesting = 1 THEN driver_execute(s1, COMMIT_)
              ELSE IF s1.c.nest_with_savepoints
                   THEN release_savepoint(s1, _get_nested_transaction_savepoint_name(s1.c))
              ELSE s1
        s3 == IF Ok(s2) /\ s2.c.rollback_only
              THEN Raise(s2, "commit_failed_rollback_only")
              ELSE set_nesting(s2, s2.c.nesting - 1)
    IN  IF Ok(s3) /\ ~s3.c.auto_commit /\ s3.c.nesting = 0
        THEN begin_transaction(s3)
        ELSE s3

commit(s) ==
    LET s1 == ensure_connected(commit_guard(s))
        s2 == IF ~Ok(s1) THEN s1
              ELSE IF s1.c.nesting = 1 THEN driver_execute(s1, COMMIT_)
              ELSE IF s1.c.nest_with_savepoints
                   THEN release_savepoint(s1, _get_nested_transaction_savepoint_name(s1.c))
              ELSE s1
        s3 == set_nesting(s2, s2.c.nesting - 1)
    IN  IF Ok(s3) /\ ~s3.c.auto_commit /\ s3.c.nesting = 0
        THEN begin_transaction(s3)
        ELSE s3

\* Mutant: the loop does not return after the commit of the outermost level.
RECURSIVE commit_all_loop_without_return(_, _)
commit_all_loop_without_return(s, fuel) ==
    IF ~Ok(s) \/ s.c.nesting = 0 THEN s
    ELSE IF fuel = 0 THEN Raise(s, "diverged")
    ELSE commit_all_loop_without_return(commit(s), fuel - 1)

RECURSIVE commit_all_loop(_, _)
commit_all_loop(s, fuel) ==
    IF ~Ok(s) \/ s.c.nesting = 0 THEN s
    ELSE IF fuel = 0 THEN Raise(s, "diverged")
    ELSE IF ~s.c.auto_commit /\ s.c.nesting = 1 THEN commit(s)
    ELSE commit_all_loop(commit(s), fuel - 1)

commit_all(s) == commit_all_loop(s, MaxNesting + 1)

rollback_guard(s) ==
    IF ~Ok(s) THEN s
    ELSE IF s.c.nesting = 0 THEN Raise(s, "no_active_transaction")
    ELSE s

\* Mutant: the rollback-only flag is not cleared.
rollback_outermost_keeping_flag(s) ==
    LET s1 == set_nesting(s, 0)
        s2 == driver_execute(s1, ROLLBACK_)
    IN  IF Ok(s2) /\ ~s2.c.auto_commit THEN begin_transaction(s2) ELSE s2

rollback_outermost(s) ==
    LET s1 == set_nesting(s, 0)
        s2 == driver_execute(s1, ROLLBACK_)
        s3 == IF Ok(s2) THEN [s2 EXCEPT !.c.rollback_only = FALSE] ELSE s2
    IN  IF Ok(s3) /\ ~s3.c.auto_commit THEN begin_transaction(s3) ELSE s3

\* Mutant: a nested rollback without savepoints does not set the flag.
rollback_nested_without_flag(s) ==
    IF s.c.nest_with_savepoints
    THEN LET s1 == rollback_savepoint(s, _get_nested_transaction_savepoint_name(s.c))
         IN  set_nesting(s1, s1.c.nesting - 1)
    ELSE set_nesting(s, s.c.nesting - 1)

rollback_nested(s) ==
    IF s.c.nest_with_savepoints
    THEN LET s1 == rollback_savepoint(s, _get_nested_transaction_savepoint_name(s.c))
         IN  set_nesting(s1, s1.c.nesting - 1)
    ELSE set_nesting([s EXCEPT !.c.rollback_only = TRUE], s.c.nesting - 1)

rollback(s) ==
    LET s1 == ensure_connected(rollback_guard(s))
    IN  IF ~Ok(s1) THEN s1
        ELSE IF s1.c.nesting = 1 THEN rollback_outermost(s1)
        ELSE rollback_nested(s1)

set_auto_commit(s, b) ==
    IF ~Ok(s) \/ b = s.c.auto_commit THEN s
    ELSE LET s1 == [s EXCEPT !.c.auto_commit = b]
         IN  IF s1.c.connected /\ s1.c.nesting # 0 THEN commit_all(s1) ELSE s1

set_rollback_only(s) ==
    IF ~Ok(s) THEN s
    ELSE IF s.c.nesting = 0 THEN Raise(s, "no_active_transaction")
    ELSE [s EXCEPT !.c.rollback_only = TRUE]

\* Mutant: the policy may be changed inside a transaction.
set_nest_in_transaction(s, b) ==
    IF ~Ok(s) THEN s
    ELSE IF ~s.c.savepoints_supported THEN Raise(s, "savepoints_not_supported")
    ELSE [s EXCEPT !.c.nest_with_savepoints = b]

set_nest_transactions_with_savepoints(s, b) ==
    IF ~Ok(s) THEN s
    ELSE IF s.c.nesting > 0 THEN Raise(s, "may_not_alter_in_transaction")
    ELSE IF ~s.c.savepoints_supported THEN Raise(s, "savepoints_not_supported")
    ELSE [s EXCEPT !.c.nest_with_savepoints = b]

\* Connection.transaction after the callback has returned: the try body's
\* commit and the except clause.  orig is the exception the try body raised.
transaction_return(s) ==
    LET s1 == commit(s)
    IN  IF Ok(s1) THEN [s |-> s1, orig |-> "none", rollbacks |-> 0, at |-> 0]
        ELSE LET s2 == rollback([s1 EXCEPT !.err = "none"])
                 IN  [s |-> IF Ok(s2) THEN [s2 EXCEPT !.err = s1.err] ELSE s2,
                  orig |-> s1.err, rollbacks |-> 1, at |-> s1.c.nesting]

\* Connection.transaction after the callback has raised e.
transaction_raise(s, e) ==
    LET s2 == rollback(s)
    IN  [s |-> IF Ok(s2) THEN [s2 EXCEPT !.err = e] ELSE s2,
         orig |-> e, rollbacks |-> 1, at |-> s.c.nesting]

Connection(auto_connect, auto_commit, supported, k) ==
    LET s == Start(NewFields(auto_connect, auto_commit, supported), k)
    IN  IF auto_connect THEN connect(s) ELSE s


\* ---- SQL text ----
\* A Python string is a sequence of tokens.  The characters the parameter
\* pattern of Statement tells apart are tokens of their own: "?", ":", the
\* two quotes, the backslash and the name character "a" (which stands for
\* [a-zA-Z_]); every other token is text without any of them.
Quotes == {"'", "\""}
Backslash == "\\"
NameChars == {"a"}
None == "None"

RECURSIVE Str(_)
Str(text) == IF text = <<>> THEN "" ELSE Head(text) \o Str(Tail(text))

\* sep.join(items)
RECURSIVE join(_, _)
join(sep, items) ==
    IF items = <<>> THEN <<>>
    ELSE IF Len(items) = 1 THEN items[1]
    ELSE items[1] \o sep \o join(sep, Tail(items))

RECURSIVE Times(_, _)
Times(item, n) == IF n = 0 THEN <<>> ELSE <<item>> \o Times(item, n - 1)

\* A parameter value: a scalar, or a list or tuple of scalars.
Scalar(v) == [list |-> FALSE, items |-> <<v>>]
List(items) == [list |-> TRUE, items |-> items]

\* ---- Statement ----
get_placeholder(driver) == IF driver = "sqlite" THEN "?" ELSE "%s"

\* The lookahead of _re_params from position j to the end of the string:
\* escaped characters and characters other than quotes and backslash, with
\* the quotes (of either kind) in pairs.
RECURSIVE lookahead(_, _, _)
lookahead(sql, j, paired) ==
    IF j > Len(sql) THEN paired
    ELSE IF sql[j] = Backslash
    THEN j + 1 <= Len(sql) /\ lookahead(sql, j + 2, paired)
    ELSE IF sql[j] \in Quotes THEN lookahead(sql, j + 1, ~paired)
    ELSE lookahead(sql, j + 1, paired)

\* The last position of the run of name characters that starts at j.
RECURSIVE name_end(_, _)
name_end(sql, j) ==
    IF j + 1 <= Len(sql) /\ sql[j + 1] \in NameChars
    THEN name_end(sql, j + 1) ELSE j

\* The length of the match of _re_params at position i, 0 when none.
_re_params(sql, i) ==
    IF sql[i] = "?"
    THEN IF lookahead(sql, i + 1, TRUE) THEN 1 ELSE 0
    ELSE IF /\ sql[i] = ":"
            /\ (i = 1 \/ sql[i - 1] # ":")
            /\ i + 1 <= Len(sql)
            /\ sql[i + 1] \in NameChars
    THEN LET e == name_end(sql, i + 1)
         IN  IF lookahead(sql, e + 1, TRUE) THEN e - i + 1 ELSE 0
    ELSE 0

\* The closure replace of _prepare, called with one match.  run holds
\* replace._param_counter, exec_params, the exception raised and, as
\* history, the matches, the values bound and the replacement texts.
\* The part after the lookup: a list or tuple extends exec_params and gives
\* one placeholder per element, anything else is appended.
\* Mutant: a list or tuple gets one placeholder.
bind_with_one_placeholder(run, param, placeholder) ==
    [run EXCEPT !.exec_params = @ \o param.items,
                !.sql = Append(@, placeholder),
                !.bound = Append(@, param),
                !.texts = Append(@, <<placeholder>>)]

bind(run, param, placeholder) ==
    LET text == IF param.list
                THEN join(<<", ">>, Times(<<placeholder>>, Len(param.items)))
                ELSE <<placeholder>>
    IN  [run EXCEPT !.exec_params = @ \o param.items,
                    !.sql = @ \o text,
                    !.bound = Append(@, param),
                    !.texts = Append(@, text)]

replace(run, given, match, placeholder) ==
    LET positional == match.text = <<"?">>
        missing == IF positional
                   THEN run._param_counter + 1 > Len(given.args)
                   ELSE Tail(match.text) \notin DOMAIN given.kwargs
        counted == [run EXCEPT !._param_counter =
                                 IF positional THEN @ + 1 ELSE @,
                               !.matches = Append(@, match)]
    IN  IF missing
        THEN [counted EXCEPT !.err = IF positional
                                     THEN "missing_positional_parameter"
                                     ELSE "missing_named_parameter"]
        ELSE bind(counted,
                  IF positional THEN given.args[run._param_counter + 1]
                  ELSE given.kwargs[Tail(match.text)],
                  placeholder)

\* Statement._re_params.sub(replace, sql) from position i on: a character
\* that starts no match is copied, a match is replaced.  The run after the
\* step is bound (as the element of a singleton) before the rest of the
\* string is read, so that it is evaluated once.
RECURSIVE sub(_, _, _, _, _)
sub(run, given, sql, i, placeholder) ==
    IF run.err # "none" \/ i > Len(sql) THEN run
    ELSE LET n == _re_params(sql, i)
             step == IF n = 0
                     THEN [run EXCEPT !.sql = Append(@, sql[i])]
                     ELSE replace(run, given,
                                  [at |-> i,
                                   text |-> SubSeq(sql, i, i + n - 1)],
                                  placeholder)
         IN  CHOOSE r \in {sub(next, given, sql,
                               i + (IF n = 0 THEN 1 ELSE n), placeholder) :
                              next \in {step}} : TRUE

NoRun ==
    [_param_counter |-> 0, exec_params |-> <<>>, sql |-> <<>>,
     err |-> "none",
     matches |-> <<>>, bound |-> <<>>, texts |-> <<>>, executed |-> FALSE]

\* Statement.execute(sql, *args, **kwargs): the positional arguments are
\* filed under 0, 1, ... beside the keyword arguments, the query is
\* rewritten, and the driver executes it unless the rewriting raised.
execute(driver, sql, args, kwargs) ==
    LET run == sub(NoRun, [args |-> args, kwargs |-> kwargs], sql, 1,
                   get_placeholder(driver))
    IN  [run EXCEPT !.executed = (run.err = "none")]

\* ---- CompositeExpression ----
\* __init__, add_multiple and add: the parts that are not empty, in order.
CompositeExpression(type_, parts) ==
    [type |-> type_, parts |-> SelectSeq(parts, LAMBDA part : part # <<>>)]

\* __str__
CompositeExpression_str(e) ==
    IF Len(e.parts) = 1 THEN e.parts[1]
    ELSE <<"(">> \o join(<<") ", e.type, " (">>, e.parts) \o <<")">>

\* ---- dict ----
\* The parameters of a builder are a dict with integer and string keys, and
\* _prepare_params reads it in the order the dict iterates.  The dict is the
\* hash table of the interpreter: a key goes to the slot its hash selects,
\* and after a collision to the next slot of the probe sequence; iteration
\* is by slot.  The hash of an integer is the integer; the hash of a string
\* is not modelled, so a new string key takes a free slot chosen by the
\* caller of dict_set.  The table is the one of a dict of up to five keys.
Slots == 0..7
TableSize == Cardinality(Slots)
Fill(table) == Cardinality({i \in Slots : table[i + 1] # <<>>})
IntKey(n) == [int |-> TRUE, n |-> n, name |-> <<>>]
StrKey(name) == [int |-> FALSE, n |-> 0, name |-> name]
NewDict == [i \in 1..TableSize |-> <<>>]

\* The slot that holds key, -1 when none does.
Slot(table, key) ==
    IF \E i \in Slots : table[i + 1] # <<>> /\ table[i + 1][1] = key
    THEN CHOOSE i \in Slots : table[i + 1] # <<>> /\ table[i + 1][1] = key
    ELSE 0 - 1

RECURSIVE probe(_, _, _)
probe(table, i, perturb) ==
    IF table[i + 1] = <<>> THEN i
    ELSE probe(table, (5 * i + perturb + 1) % TableSize, perturb \div 32)

\* dict[key] = value
dict_set(table, key, value, free) ==
    LET i == IF Slot(table, key) >= 0 THEN Slot(table, key)
             ELSE IF ~key.int THEN free
             ELSE IF table[(key.n % TableSize) + 1] = <<>>
             THEN key.n % TableSize
             ELSE probe(table,
                        (5 * (key.n % TableSize) + key.n + 1) % TableSize,
                        key.n \div 32)
    IN  [table EXCEPT ![i + 1] = <<key, value>>]

\* dict.iteritems()
iteritems(table) == SelectSeq(table, LAMBDA entry : entry # <<>>)

\* ---- SQLBuilder ----
\* A value that may be None is a sequence of length 0 (None) or 1.  The
\* dicts "join" and "values" are sequences of key and value in the order
\* the dict iterates them.  hash_order is the order in which a dict iterates
\* the table references of the FROM clause.
SQLBuilder(platform, hash_order) ==
    [_sql_parts |-> [select |-> <<>>, from |-> <<>>, join |-> <<>>,
                     set |-> <<>>, where |-> <<>>, group_by |-> <<>>,
                     having |-> <<>>, order_by |-> <<>>, values |-> <<>>],
     _sql |-> <<>>,
     _type |-> "SELECT",
     _state |-> "CLEAN",
     _first_result |-> <<>>,
     _max_results |-> <<>>,
     _params |-> NewDict,
     _param_counter |-> 0,
     platform |-> platform,
     hash_order |-> hash_order]

SetPart(b, sql_part_name, value) ==
    [b EXCEPT !._sql_parts = [@ EXCEPT ![sql_part_name] = value]]

reset_sql_part(b, sql_part_name) ==
    [SetPart(b, sql_part_name, <<>>) EXCEPT !._state = "DIRTY"]

RECURSIVE reset_sql_parts(_, _)
reset_sql_parts(b, sql_part_names) ==
    IF sql_part_names = <<>> THEN b
    ELSE reset_sql_parts(reset_sql_part(b, Head(sql_part_names)),
                         Tail(sql_part_names))

\* The position of the bucket of from_alias in the "join" dict, 0 when none.
Bucket(joins, from_alias) ==
    IF \E i \in 1..Len(joins) : joins[i][1] = from_alias
    THEN CHOOSE i \in 1..Len(joins) : joins[i][1] = from_alias
    ELSE 0

_add(b, sql_part_name, sql_part, append) ==
    IF (IF sql_part_name \in {"where", "having"}
        THEN sql_part[1].parts = <<>> ELSE sql_part = <<>>)
    THEN b
    ELSE LET dirty == [b EXCEPT !._state = "DIRTY"]
             b1 == IF append THEN dirty
                   ELSE reset_sql_part(dirty, sql_part_name)
             old == b1._sql_parts[sql_part_name]
         IN  IF sql_part_name \in {"select", "group_by"}
             THEN SetPart(b1, sql_part_name, old \o sql_part)
             ELSE IF sql_part_name \in {"from", "set", "order_by"}
             THEN SetPart(b1, sql_part_name, Append(old, sql_part))
             ELSE IF sql_part_name = "join"
             THEN LET i == Bucket(old, sql_part[1])
                  IN  IF i # 0
                      THEN SetPart(b1, "join",
                                   [old EXCEPT ![i][2] =
                                      Append(@, Tail(sql_part))])
                      ELSE SetPart(b1, "join",
                                   Append(old, <<sql_part[1],
                                                 <<Tail(sql_part)>>>>))
             ELSE SetPart(b1, sql_part_name, sql_part)

select(b, columns) ==
    _add([b EXCEPT !._type = "SELECT"], "select", columns, FALSE)

add_select(b, columns) ==
    _add([b EXCEPT !._type = "SELECT"], "select", columns, TRUE)

from_(b, table, alias) == _add(b, "from", <<table, alias>>, TRUE)

insert(b, table) ==
    _add([b EXCEPT !._type = "INSERT"], "from", <<table>>, FALSE)

update(b, table, alias) ==
    _add([b EXCEPT !._type = "UPDATE"], "from", <<table, alias>>, FALSE)

delete(b, table, alias) ==
    _add([b EXCEPT !._type = "DELETE"], "from", <<table, alias>>, FALSE)

\* inner_join, left_join and right_join
join_(b, type_, from_alias, table, alias, condition) ==
    _add(b, "join",
         <<from_alias, type_, table, alias,
           CompositeExpression("AND", condition)>>, TRUE)

set(b, key, value) == _add(b, "set", key \o <<" = ">> \o value, TRUE)

\* where and having
where(b, part, predicates) ==
    _add(b, part, <<CompositeExpression("AND", predicates)>>, FALSE)

\* and_where, or_where, and_having and or_having
and_where_without_existing(b, part, type_, predicates) ==
    _add(b, part, <<CompositeExpression(type_, predicates)>>, FALSE)

and_where(b, part, type_, predicates) ==
    LET expr == b._sql_parts[part]
        all == IF expr # <<>>
               THEN <<CompositeExpression_str(expr[1])>> \o predicates
               ELSE predicates
    IN  _add(b, part, <<CompositeExpression(type_, all)>>, FALSE)

group_by(b, columns) == _add(b, "group_by", columns, FALSE)

add_group_by(b, columns) == _add(b, "group_by", columns, TRUE)

\* set_value; at is where the dict puts a new key in its iteration order.
set_value(b, column, value, at) ==
    LET old == b._sql_parts.values
    IN  IF \E i \in 1..Len(old) : old[i][1] = column
        THEN SetPart(b, "values",
                     [i \in 1..Len(old) |->
                        IF old[i][1] = column THEN <<column, value>>
                        ELSE old[i]])
        ELSE SetPart(b, "values",
                     SubSeq(old, 1, at - 1) \o <<<<column, value>>>>
                     \o SubSeq(old, at, Len(old)))

values(b, dict) == _add(b, "values", dict, FALSE)

\* str.upper() of the keywords the builder is given
upper(word) ==
    CASE word = "asc" -> "ASC"
      [] word = "desc" -> "DESC"
      [] word = "inner" -> "INNER"
      [] word = "left" -> "LEFT"
      [] word = "right" -> "RIGHT"
      [] OTHER -> word

order_by(b, sort, order) ==
    _add(b, "order_by", sort \o <<" ", upper(order)>>, FALSE)

add_order_by(b, sort, order) ==
    _add(b, "order_by", sort \o <<" ", upper(order)>>, TRUE)

set_first_result(b, first_result) ==
    [b EXCEPT !._state = "DIRTY", !._first_result = first_result]

set_max_results(b, max_results) ==
    [b EXCEPT !._state = "DIRTY", !._max_results = max_results]

\* ---- SQLBuilder: rendering ----
\* A rendering is [sql, err]; known_aliases travels with it through the
\* FROM clause.
Rendered(sql) == [sql |-> sql, err |-> "none"]
Failed(e) == [sql |-> <<>>, err |-> e]

RECURSIVE _get_sql_for_joins(_, _, _)
RECURSIVE joins_declared(_, _, _, _)
RECURSIVE joins_followed(_, _, _, _)

\* The first loop of _get_sql_for_joins from the i-th join of the bucket on:
\* each target alias is checked, declared and added to known_aliases.
joins_declared(b, joins, i, r) ==
    IF r.err # "none" \/ i > Len(joins) THEN r
    ELSE IF joins[i][3] \in r.known_aliases
    THEN [r EXCEPT !.err = "non_unique_alias"]
    ELSE joins_declared(
             b, joins, i + 1,
             [r EXCEPT !.sql = @ \o <<" ", upper(joins[i][1]), " JOIN ",
                                      joins[i][2], " ", joins[i][3], " ON ">>
                               \o CompositeExpression_str(joins[i][4]),
                       !.known_aliases = @ \cup {joins[i][3]}])

\* The second loop: the joins of each target alias.
joins_followed(b, joins, i, r) ==
    IF r.err # "none" \/ i > Len(joins) THEN r
    ELSE LET sub_ == _get_sql_for_joins(b, joins[i][3], r.known_aliases)
         IN  joins_followed(
                 b, joins, i + 1,
                 [sql |-> r.sql \o sub_.sql, err |-> sub_.err,
                  known_aliases |-> sub_.known_aliases])

_get_sql_for_joins(b, from_alias, known_aliases) ==
    LET i == Bucket(b._sql_parts.join, from_alias)
        r == [sql |-> <<>>, err |-> "none", known_aliases |-> known_aliases]
    IN  IF i = 0 THEN r
        ELSE LET joins == b._sql_parts.join[i][2]
             IN  joins_followed(b, joins, 1, joins_declared(b, joins, 1, r))

\* The loop over the "from" part of _get_from_clauses from the i-th entry
\* on; from_clauses maps a table reference to its clause.
RECURSIVE from_loop(_, _, _)
from_loop(b, i, r) ==
    IF r.err # "none" \/ i > Len(b._sql_parts.from) THEN r
    ELSE LET from__ == b._sql_parts.from[i]
         IN  IF Len(from__) < 2 THEN [r EXCEPT !.err = "IndexError"]
             ELSE LET table_sql == IF from__[2] = None THEN <<from__[1]>>
                                   ELSE <<from__[1], " ", from__[2]>>
                      table_reference == IF from__[2] = None THEN from__[1]
                                         ELSE from__[2]
                      known == r.known_aliases \cup {table_reference}
                      joined == _get_sql_for_joins(b, table_reference, known)
                  IN  from_loop(
                          b, i + 1,
                          [known_aliases |-> joined.known_aliases,
                           err |-> joined.err,
                           from_clauses |->
                               [a \in DOMAIN r.from_clauses
                                      \cup {table_reference} |->
                                  IF a = table_reference
                                  THEN table_sql \o joined.sql
                                  ELSE r.from_clauses[a]]])

\* Mutant: the sources of the joins are not checked.
_get_from_clauses_without_check(b) ==
    from_loop(b, 1, [known_aliases |-> {}, err |-> "none",
                     from_clauses |-> [a \in {} |-> <<>>]])

_get_from_clauses(b) ==
    LET r == from_loop(b, 1, [known_aliases |-> {}, err |-> "none",
                              from_clauses |-> [a \in {} |-> <<>>]])
        joins == b._sql_parts.join
    IN  IF r.err # "none" THEN r
        ELSE IF \E i \in 1..Len(joins) : joins[i][1] \notin r.known_aliases
        THEN [r EXCEPT !.err = "unknown_alias"]
        ELSE r

\* from_clauses.itervalues(): the clauses in the order of the dict.
itervalues(from_clauses, hash_order) ==
    LET keys == SelectSeq(hash_order, LAMBDA a : a \in DOMAIN from_clauses)
    IN  [i \in 1..Len(keys) |-> from_clauses[keys[i]]]

\* Mutant: the _modify_limit_sql of BasePlatform for every platform.
modify_limit_sql_of_base_platform(platform, sql, limit, offset) ==
    IF offset # <<>> /\ offset[1] < 0 THEN Failed("invalid_offset")
    ELSE Rendered(
             sql \o (IF limit # <<>> THEN <<" LIMIT ", ToString(limit[1])>>
                     ELSE <<>>)
                 \o (IF offset # <<>> THEN <<" OFFSET ", ToString(offset[1])>>
                     ELSE <<>>))

\* BasePlatform.modify_limit_sql and the _modify_limit_sql of the platform
modify_limit_sql(platform, sql, limit, offset) ==
    IF offset # <<>> /\ offset[1] < 0 THEN Failed("invalid_offset")
    ELSE IF platform = "mysql"
    THEN Rendered(
             sql \o (IF limit # <<>>
                     THEN <<" LIMIT ", ToString(limit[1])>>
                          \o (IF offset # <<>>
                              THEN <<" OFFSET ", ToString(offset[1])>>
                              ELSE <<>>)
                     ELSE IF offset # <<>>
                     THEN <<" LIMIT 18446744073709551615 OFFSET ",
                            ToString(offset[1])>>
                     ELSE <<>>))
    ELSE IF limit = <<>> /\ offset # <<>>
    THEN Rendered(sql \o <<" LIMIT -1 OFFSET ", ToString(offset[1])>>)
    ELSE Rendered(
             sql \o (IF limit # <<>> THEN <<" LIMIT ", ToString(limit[1])>>
                     ELSE <<>>)
                 \o (IF offset # <<>> THEN <<" OFFSET ", ToString(offset[1])>>
                     ELSE <<>>))

Clause(keyword, part) == IF part = <<>> THEN <<>> ELSE <<keyword>> \o part

WhereClause(keyword, expr) ==
    IF expr = <<>> THEN <<>>
    ELSE <<keyword>> \o CompositeExpression_str(expr[1])

_get_sql_for_select(b) ==
    LET parts == b._sql_parts
        clauses == _get_from_clauses(b)
    IN  IF clauses.err # "none" THEN Failed(clauses.err)
        ELSE LET sql == <<"SELECT ">> \o join(<<", ">>, parts.select)
                        \o <<" FROM ">>
                        \o join(<<", ">>,
                                itervalues(clauses.from_clauses, b.hash_order))
                        \o WhereClause(" WHERE ", parts.where)
                        \o Clause(" GROUP BY ", join(<<", ">>, parts.group_by))
                        \o WhereClause(" HAVING ", parts.having)
                        \o Clause(" ORDER BY ", join(<<", ">>, parts.order_by))
             IN  IF b._max_results # <<>> \/ b._first_result # <<>>
                 THEN modify_limit_sql(b.platform, sql, b._max_results,
                                       b._first_result)
                 ELSE Rendered(sql)

_get_sql_for_insert(b) ==
    LET parts == b._sql_parts
    IN  IF parts.from = <<>> THEN Failed("IndexError")
        ELSE Rendered(
                 <<"INSERT INTO ", parts.from[1][1], " (">>
                 \o join(<<", ">>, [i \in 1..Len(parts.values) |->
                                      parts.values[i][1]])
                 \o <<") VALUES(">>
                 \o join(<<", ">>, [i \in 1..Len(parts.values) |->
                                      parts.values[i][2]])
                 \o <<")">>)

\* The table and its alias, as _get_sql_for_update and _get_sql_for_delete
\* render them.
TableAndAlias(keyword, parts) ==
    IF parts.from = <<>> \/ Len(parts.from[1]) < 2 THEN Failed("IndexError")
    ELSE Rendered(<<keyword, parts.from[1][1]>>
                  \o (IF parts.from[1][2] # None
                      THEN <<" ", parts.from[1][2]>> ELSE <<>>))

_get_sql_for_update(b) ==
    LET parts == b._sql_parts
        head == TableAndAlias("UPDATE ", parts)
    IN  IF head.err # "none" THEN head
        ELSE Rendered(head.sql
                      \o Clause(" SET ", join(<<", ">>, parts.set))
                      \o WhereClause(" WHERE ", parts.where))

_get_sql_for_delete(b) ==
    LET parts == b._sql_parts
        head == TableAndAlias("DELETE FROM ", parts)
    IN  IF head.err # "none" THEN head
        ELSE Rendered(head.sql \o WhereClause(" WHERE ", parts.where))

\* What get_sql renders when it does not answer from the cache.
Render(b) ==
    IF b._type = "INSERT" THEN _get_sql_for_insert(b)
    ELSE IF b._type = "DELETE" THEN _get_sql_for_delete(b)
    ELSE IF b._type = "UPDATE" THEN _get_sql_for_update(b)
    ELSE _get_sql_for_select(b)

\* Mutant: the cached string is not used.
get_sql_rendering_always(b) ==
    LET r == Render(b)
    IN  IF r.err # "none"
        THEN [b |-> b, sql |-> <<>>, err |-> r.err, rendered |-> TRUE]
        ELSE [b |-> [b EXCEPT !._sql = <<r.sql>>, !._state = "CLEAN"],
              sql |-> r.sql, err |-> "none", rendered |-> TRUE]

\* get_sql: [b, sql, err, rendered]; rendered tells whether the call
\* rendered or answered from the cache.
get_sql(b) ==
    IF b._sql # <<>> /\ b._state = "CLEAN"
    THEN [b |-> b, sql |-> b._sql[1], err |-> "none", rendered |-> FALSE]
    ELSE LET r == Render(b)
         IN  IF r.err # "none"
             THEN [b |-> b, sql |-> <<>>, err |-> r.err, rendered |-> TRUE]
             ELSE [b |-> [b EXCEPT !._sql = <<r.sql>>, !._state = "CLEAN"],
                   sql |-> r.sql, err |-> "none", rendered |-> TRUE]

\* ---- SQLBuilder: parameters ----
\* str.lstrip(":")
RECURSIVE lstrip(_)
lstrip(text) ==
    IF text # <<>> /\ Head(text) = ":" THEN lstrip(Tail(text)) ELSE text

\* set_parameter; free is the slot a new string key takes.
set_parameter(b, key, value, free) ==
    [b EXCEPT !._params =
        dict_set(@, IF key.int THEN key ELSE StrKey(lstrip(key.name)),
                 value, free)]

\* set_parameters with a list or tuple
RECURSIVE enumerate(_, _, _)
enumerate(b, values_, i) ==
    IF i > Len(values_) THEN b
    ELSE enumerate(set_parameter(b, IntKey(i - 1), values_[i], 0),
                   values_, i + 1)

set_parameters(b, values_) ==
    enumerate([b EXCEPT !._params = NewDict], values_, 1)

\* create_named_parameter without a placeholder: [b, placeholder]
create_named_parameter(b, value, free) ==
    LET placeholder == <<":", "pyValue", ToString(b._param_counter)>>
        counted == [b EXCEPT !._param_counter = @ + 1]
    IN  [b |-> set_parameter(counted, StrKey(Tail(placeholder)), value, free),
         placeholder |-> placeholder]

\* Mutant: the counter is left as it was.
create_positional_parameter_without_count(b, value) ==
    [b |-> set_parameter(b, IntKey(b._param_counter), value, 0),
     placeholder |-> <<"?">>]

create_positional_parameter(b, value) ==
    [b |-> [set_parameter(b, IntKey(b._param_counter), value, 0)
              EXCEPT !._param_counter = @ + 1],
     placeholder |-> <<"?">>]

\* _prepare_params: the values of the integer keys, in the order of the
\* dict, and the entries of the string keys.
_prepare_params(b) ==
    LET items == iteritems(b._params)
        ints == SelectSeq(items, LAMBDA entry : entry[1].int)
        strs == SelectSeq(items, LAMBDA entry : ~entry[1].int)
    IN  [args |-> [i \in 1..Len(ints) |-> ints[i][2]],
         kwargs |-> [name \in {strs[i][1].name : i \in 1..Len(strs)} |->
                       LET i == CHOOSE i \in 1..Len(strs) :
                                    strs[i][1].name = name
                       IN  strs[i][2]]]

\* SQLBuilder.execute, through Connection.query or Connection.execute, to
\* Statement.execute on a connected connection: [b, args, kwargs, err, run].
builder_execute(b, driver) ==
    CHOOSE r \in {[b |-> got.b, args |-> given.args, kwargs |-> given.kwargs,
                   err |-> got.err,
                   run |-> IF got.err # "none" THEN NoRun
                           ELSE execute(driver, got.sql, given.args,
                                        given.kwargs)] :
                    given \in {_prepare_params(b)}, got \in {get_sql(b)}} :
        TRUE

\* ---- ExpressionBuilder ----
comparison(x, operator, y) == x \o <<" ", operator, " ">> \o y

eq(x, y) == comparison(x, "=", y)

\* in_(x, y) with the string y: ", ".join(y) joins its characters.
in_(x, y) == comparison(x, "IN", <<"(">> \o join(<<", ">>, [i \in 1..Len(y) |-> <<y[i]>>]) \o <<")">>)

\* ---- Connection.update and Connection.delete ----
\* `for column, value in values.iteritems(): sb.set(column, ...)`
RECURSIVE set_loop(_, _, _)
set_loop(b, values_, i) ==
    IF i > Len(values_) THEN b
    ELSE LET made == create_positional_parameter(b, values_[i][2])
         IN  set_loop(set(made.b, <<values_[i][1]>>, made.placeholder),
                      values_, i + 1)

\* `for column, value in identifier.iteritems(): sb.and_where(func(...))`
RECURSIVE identifier_loop(_, _, _)
identifier_loop(b, identifier, i) ==
    IF i > Len(identifier) THEN b
    ELSE LET made == create_positional_parameter(b, identifier[i][2])
             cond == IF identifier[i][2].list
                     THEN in_(<<identifier[i][1]>>, made.placeholder)
                     ELSE eq(<<identifier[i][1]>>, made.placeholder)
         IN  identifier_loop(and_where(made.b, "where", "AND", <<cond>>),
                             identifier, i + 1)

sql_builder(driver) == SQLBuilder(driver, <<>>)

Connection_update(driver, table, values_, identifier) ==
    builder_execute(
        identifier_loop(set_loop(update(sql_builder(driver), table, None),
                                 values_, 1),
                        identifier, 1),
        driver)

Connection_delete(driver, table, identifier) ==
    builder_execute(
        identifier_loop(delete(sql_builder(driver), table, None),
                        identifier, 1),
        driver)

\* ---- state after construction ----
Unbuilt == NewFields(FALSE, TRUE, TRUE)
\* The constructor arguments: those of the connections and _pool_max_size.
Params ==
    [auto_connect : BOOLEAN, auto_commit : BOOLEAN, supported : BOOLEAN,
     pool_max_size : 1..PoolMaxSize]
\* A running Connection.transaction: entry is the nesting level before the
\* call and found the one the callback is called at.
NoTxn ==
    [active |-> FALSE, entry |-> 0, found |-> 0, pooled |-> FALSE,
     finished |-> FALSE]

NoCall ==
    [op |-> "none", err |-> "none", stmts |-> <<>>,
     orig |-> "none", rollbacks |-> 0, entry |-> 0, at |-> 0]

\* The run the scenarios S6 and S7 are about, on a new connection.
Scenario == <<"begin_transaction", "begin_transaction", "rollback", "commit">>
ScenarioOff == [n |-> 0 - 1, stmts |-> <<>>]
ScenarioStart == [n |-> 0, stmts |-> <<>>]

Track(sc, op, r) ==
    IF sc.n >= 0 /\ sc.n < Len(Scenario) /\ op = Scenario[sc.n + 1]
       /\ (Ok(r) \/ sc.n + 1 = Len(Scenario))
    THEN [n |-> sc.n + 1, stmts |-> sc.stmts \o r.stmts]
    ELSE IF sc.n = 0 /\ Ok(r)
            /\ op \in {"set_nest_transactions_with_savepoints", "connect"}
    THEN sc
    ELSE ScenarioOff

\* No builder in use and no query made.
NoRet ==
    [op |-> "none", arg |-> <<>>, sql |-> <<>>, err |-> "none",
     rendered |-> FALSE, run |-> NoRun, args |-> <<>>, kwargs |-> <<>>]
NoQuery ==
    [kind |-> "none", driver |-> "sqlite", sql |-> <<>>, args |-> <<>>,
     kwargs |-> <<>>, table |-> "t", values |-> <<>>, identifier |-> <<>>]
TextVars == <<sb, query, calls, ret>>
DriverVars == <<drv, client, cache>>
OtherVars == <<DriverVars, cexpr>>

\* A driver after construction: no connection (_conn) and no cursor
\* (_cursor); 0 stands for None.
BaseDriver(name) == [name |-> name, _conn |-> 0, _cursor |-> 0]
\* The client library before any call: no connection and no cursor open, none
\* ever made, no suspended iterate() generator.
NoClient ==
    [conns |-> {}, cursors |-> {}, made |-> 0, opened |-> 0,
     iterating |-> {}]
\* pydbal.cache._cache after import: empty, an lrucache when pylru is
\* installed and a dict when it is not.
EmptyCache(lru) == [lru |-> lru, entries |-> <<>>]
\* The parts of a CompositeExpression: None, a string, or a
\* CompositeExpression with its type and its own parts.
NonePart == [kind |-> "None", text |-> "", type |-> "", parts |-> <<>>]
Text(s) == [kind |-> "str", text |-> s, type |-> "", parts |-> <<>>]
Composite(type_, parts) ==
    [kind |-> "CompositeExpression", text |-> "", type |-> type_,
     parts |-> parts]
NoDriver ==
    /\ drv = BaseDriver("sqlite")
    /\ client = NoClient
    /\ cache = EmptyCache(FALSE)
    /\ cexpr = Composite("AND", <<>>)

NoText ==
    /\ sb = SQLBuilder("sqlite", <<>>)
    /\ query = NoQuery
    /\ calls = 0
    /\ ret = NoRet
    /\ NoDriver

\* A SafeConnection with an empty pool and idle threads.
Init ==
    /\ NoText
    /\ params \in Params
    /\ conn = [c \in ConnIds |-> Unbuilt]
    /\ pool = <<>>
    /\ pool_size = 0
    /\ lock_owner = 0
    /\ pc = [t \in Threads |-> "idle"]
    /\ held = [t \in Threads |-> 0]
    /\ seen = [t \in Threads |-> {}]
    /\ txn = [t \in Threads |-> NoTxn]
    /\ scenario = ScenarioOff
    /\ raised = FALSE
    /\ last = NoCall

\* One Connection, constructed and used directly by thread 1, no pool.
InitConn ==
    /\ NoText
    /\ params \in {p \in Params : p.pool_max_size = PoolMaxSize}
    /\ conn = [c \in ConnIds |->
                 IF c = 1
                 THEN Connection(params.auto_connect, params.auto_commit,
                                 params.supported, 0).c
                 ELSE Unbuilt]
    /\ pool = <<>>
    /\ pool_size = 0
    /\ lock_owner = 0
    /\ pc = [t \in Threads |-> IF t = 1 THEN "body" ELSE "idle"]
    /\ held = [t \in Threads |-> IF t = 1 THEN 1 ELSE 0]
    /\ seen = [t \in Threads |-> {}]
    /\ txn = [t \in Threads |-> NoTxn]
    /\ scenario = ScenarioStart
    /\ raised = FALSE
    /\ last = NoCall

\* ---- calls on the connection a thread holds ----
Holding(t) == pc[t] = "body" /\ held[t] \in ConnIds
Mine(t) == conn[held[t]]

Outcome(op, r) ==
    [NoCall EXCEPT !.op = op, !.err = r.err, !.stmts = r.stmts]

PoolVars == <<pool, pool_size, lock_owner, held, seen, params>>

Call(t, op, r) ==
    /\ conn' = [conn EXCEPT ![held[t]] = r.c]
    /\ last' = Outcome(op, r)
    /\ raised' = (raised \/ ~Ok(r))
    /\ scenario' = Track(scenario, op, r)
    /\ UNCHANGED <<PoolVars, pc, txn>>

BeginTransaction(t) ==
    /\ Holding(t)
    /\ Mine(t).nesting < MaxNesting
    /\ \E k \in FailPoints :
         Call(t, "begin_transaction", begin_transaction(Start(Mine(t), k)))

Commit(t) ==
    /\ Holding(t)
    /\ \E k \in FailPoints : Call(t, "commit", commit(Start(Mine(t), k)))

Rollback(t) ==
    /\ Holding(t)
    /\ \E k \in FailPoints : Call(t, "rollback", rollback(Start(Mine(t), k)))

SetAutoCommit(t) ==
    /\ Holding(t)
    /\ \E k \in FailPoints, b \in BOOLEAN :
         Call(t, IF b THEN "set_auto_commit_true" ELSE "set_auto_commit_false",
              set_auto_commit(Start(Mine(t), k), b))

SetRollbackOnly(t) ==
    /\ Holding(t)
    /\ Call(t, "set_rollback_only", set_rollback_only(Start(Mine(t), 0)))

SetNestTransactionsWithSavepoints(t) ==
    /\ Holding(t)
    /\ \E b \in BOOLEAN :
         Call(t, "set_nest_transactions_with_savepoints",
              set_nest_transactions_with_savepoints(Start(Mine(t), 0), b))

Connect(t) ==
    /\ Holding(t)
    /\ \E k \in 0..1 : Call(t, "connect", connect(Start(Mine(t), k)))

Close(t) ==
    /\ Holding(t)
    /\ Call(t, "close", close(Start(Mine(t), 0)))

\* Connection.transaction up to the call of the callback: begin_transaction,
\* which is outside the try block.  Nested transaction() calls of a callback
\* act on the connection as its begin/commit/rollback calls do, so one
\* running transaction() per thread is tracked.  On a connection taken from
\* the pool the call is SafeConnection.transaction, whose locked() scope ends
\* ("exit") when Connection.transaction returns or raises.
TransactionBegin(t) ==
    /\ Holding(t)
    /\ ~txn[t].active
    /\ Mine(t).nesting < MaxNesting
    /\ \E k \in FailPoints :
         LET r == begin_transaction(Start(Mine(t), k))
         IN  /\ conn' = [conn EXCEPT ![held[t]] = r.c]
             /\ last' = [Outcome("transaction_begin", r)
                           EXCEPT !.entry = Mine(t).nesting]
             /\ txn' = IF Ok(r)
                       THEN [txn EXCEPT ![t] =
                               [active |-> TRUE, entry |-> Mine(t).nesting,
                                found |-> r.c.nesting,
                                pooled |-> held[t] \in DOMAIN pool,
                                finished |-> FALSE]]
                       ELSE txn
             /\ pc' = [pc EXCEPT ![t] =
                         IF ~Ok(r) /\ held[t] \in DOMAIN pool
                         THEN "exit" ELSE "body"]
             /\ raised' = (raised \/ ~Ok(r))
    /\ scenario' = ScenarioOff
    /\ UNCHANGED PoolVars

TransactionEnd(t, op, r) ==
    /\ conn' = [conn EXCEPT ![held[t]] = r.s.c]
    /\ last' = [Outcome(op, r.s)
                  EXCEPT !.orig = r.orig, !.rollbacks = r.rollbacks,
                         !.entry = txn[t].entry, !.at = r.at]
    /\ txn' = [txn EXCEPT ![t] = [NoTxn EXCEPT !.finished = txn[t].pooled]]
    /\ pc' = [pc EXCEPT ![t] = IF txn[t].pooled THEN "exit" ELSE "body"]
    /\ raised' = (raised \/ ~Ok(r.s))
    /\ scenario' = ScenarioOff
    /\ UNCHANGED PoolVars

\* The callback returns: commit, and the except clause if commit raises.
TransactionReturn(t) ==
    /\ Holding(t)
    /\ txn[t].active
    /\ \E k \in FailPoints :
         TransactionEnd(t, "transaction_return",
                        transaction_return(Start(Mine(t), k)))

\* The callback raises e: the except clause.
TransactionRaise(t) ==
    /\ Holding(t)
    /\ txn[t].active
    /\ \E k \in FailPoints, e \in CallbackErrors :
         TransactionEnd(t, "transaction_raise",
                        transaction_raise(Start(Mine(t), k), e))

NextConn ==
    /\ UNCHANGED <<TextVars, OtherVars>>
    /\ \E t \in Threads :
        \/ BeginTransaction(t)
        \/ Commit(t)
        \/ Rollback(t)
        \/ SetAutoCommit(t)
        \/ SetRollbackOnly(t)
        \/ SetNestTransactionsWithSavepoints(t)
        \/ Connect(t)
        \/ Close(t)
        \/ TransactionBegin(t)
        \/ TransactionReturn(t)
        \/ TransactionRaise(t)

SpecConn == InitConn /\ [][NextConn]_vars


\* ---- SafeConnection ----
\* _get_connection: `with SafeConnection.LOCK`.
AcquireLock(t) ==
    /\ pc[t] = "idle"
    /\ lock_owner = 0
    /\ lock_owner' = t
    /\ pc' = [pc EXCEPT ![t] = "scan"]
    /\ seen' = [seen EXCEPT ![t] = {}]
    /\ last' = NoCall
    /\ UNCHANGED <<conn, pool, pool_size, held, txn, params, scenario, raised>>

\* One iteration of `for conn, locked in self._pool.iteritems()` that finds
\* a free entry: return conn, which leaves the with block.
ScanFree(t) ==
    /\ pc[t] \in {"scan", "rescan"}
    /\ \E c \in DOMAIN pool \ seen[t] :
         /\ ~pool[c]
         /\ held' = [held EXCEPT ![t] = c]
         /\ last' = NoCall
    /\ pc' = [pc EXCEPT ![t] = "got"]
    /\ lock_owner' = 0
    /\ seen' = [seen EXCEPT ![t] = {}]
    /\ UNCHANGED <<conn, pool, pool_size, txn, params, scenario, raised>>

\* One iteration that finds a locked entry.
ScanLocked(t) ==
    /\ pc[t] \in {"scan", "rescan"}
    /\ \E c \in DOMAIN pool \ seen[t] :
         /\ pool[c]
         /\ seen' = [seen EXCEPT ![t] = @ \cup {c}]
         /\ last' = NoCall
    /\ UNCHANGED <<conn, pool, pool_size, lock_owner, pc, held, txn, params,
                   scenario, raised>>

\* The first loop found nothing and the pool is at capacity: `while True`.
PoolFull(t) ==
    /\ pc[t] = "scan"
    /\ seen[t] = DOMAIN pool
    /\ pool_size = params.pool_max_size
    /\ pc' = [pc EXCEPT ![t] = "sleep"]
    /\ last' = NoCall
    /\ UNCHANGED <<conn, pool, pool_size, lock_owner, held, seen, txn, params,
                   scenario, raised>>

\* time.sleep(1), then the loop over the pool again; LOCK stays held.
Sleep(t) ==
    /\ pc[t] = "sleep"
    /\ pc' = [pc EXCEPT ![t] = "rescan"]
    /\ seen' = [seen EXCEPT ![t] = {}]
    /\ last' = NoCall
    /\ UNCHANGED <<conn, pool, pool_size, lock_owner, held, txn, params,
                   scenario, raised>>

ScanAgain(t) ==
    /\ pc[t] = "rescan"
    /\ seen[t] = DOMAIN pool
    /\ pc' = [pc EXCEPT ![t] = "sleep"]
    /\ last' = NoCall
    /\ UNCHANGED <<conn, pool, pool_size, lock_owner, held, seen, txn, params,
                   scenario, raised>>

\* The first loop found nothing and the pool has room: a new Connection.  If
\* its constructor raises, the exception leaves _get_connection.
NewConnection(t) ==
    /\ pc[t] = "scan"
    /\ seen[t] = DOMAIN pool
    /\ pool_size # params.pool_max_size
    /\ \E k \in 0..1 :
         LET c == pool_size + 1
             r == Connection(params.auto_connect, params.auto_commit,
                             params.supported, k)
         IN  IF Ok(r) /\ c \in ConnIds
             THEN /\ conn' = [conn EXCEPT ![c] = r.c]
                  /\ pool' = (c :> FALSE) @@ pool
                  /\ pool_size' = pool_size + 1
                  /\ held' = [held EXCEPT ![t] = c]
                  /\ pc' = [pc EXCEPT ![t] = "got"]
                  /\ last' = NoCall
             ELSE /\ pc' = [pc EXCEPT ![t] = "idle"]
                  /\ last' = [NoCall EXCEPT !.op = "new_connection",
                                              !.err = r.err]
                  /\ UNCHANGED <<conn, pool, pool_size, held>>
    /\ lock_owner' = 0
    /\ seen' = [seen EXCEPT ![t] = {}]
    /\ UNCHANGED <<txn, params, scenario, raised>>

\* locked(): self._lock(conn), then the body of the with statement.
Lock(t) ==
    /\ pc[t] = "got"
    /\ pool' = [pool EXCEPT ![held[t]] = TRUE]
    /\ pc' = [pc EXCEPT ![t] = "body"]
    /\ last' = NoCall
    /\ UNCHANGED <<conn, pool_size, lock_owner, held, seen, txn, params,
                   scenario, raised>>

\* Mutant: the finally clause leaves the connection flagged in-use.
Unlock_keeping_flag(t) ==
    /\ pc[t] \in {"body", "exit"}
    /\ ~txn[t].active
    /\ held' = [held EXCEPT ![t] = 0]
    /\ last' = NoCall
    /\ pc' = [pc EXCEPT ![t] = "idle"]
    /\ txn' = [txn EXCEPT ![t] = NoTxn]
    /\ UNCHANGED <<conn, pool, pool_size, lock_owner, seen, params, scenario,
                   raised>>

\* locked(): the finally clause, self._unlock(conn).
Unlock(t) ==
    /\ pc[t] \in {"body", "exit"}
    /\ ~txn[t].active
    /\ pool' = [pool EXCEPT ![held[t]] = FALSE]
    /\ held' = [held EXCEPT ![t] = 0]
    /\ last' = NoCall
    /\ pc' = [pc EXCEPT ![t] = "idle"]
    /\ txn' = [txn EXCEPT ![t] = NoTxn]
    /\ UNCHANGED <<conn, pool_size, lock_owner, seen, params, scenario, raised>>

PoolStep(t) ==
    \/ AcquireLock(t)
    \/ ScanFree(t)
    \/ ScanLocked(t)
    \/ PoolFull(t)
    \/ Sleep(t)
    \/ ScanAgain(t)
    \/ NewConnection(t)
    \/ Lock(t)
    \/ Unlock(t)

\* The pool, the bodies of the locked() scopes making no transaction call.
Next == UNCHANGED <<TextVars, OtherVars>> /\ \E t \in Threads : PoolStep(t)

Spec == Init /\ [][Next]_vars

\* The pool used through locked() and SafeConnection.transaction.
NextTransaction ==
    /\ UNCHANGED <<TextVars, OtherVars>>
    /\ \E t \in Threads :
        \/ PoolStep(t)
        \/ TransactionBegin(t)
        \/ TransactionReturn(t)
        \/ TransactionRaise(t)

SpecTransaction == Init /\ [][NextTransaction]_vars


\* ---- no connection in use ----
NoConnection ==
    /\ params = [auto_connect |-> FALSE, auto_commit |-> TRUE,
                 supported |-> TRUE, pool_max_size |-> PoolMaxSize]
    /\ conn = [c \in ConnIds |-> Unbuilt]
    /\ pool = <<>>
    /\ pool_size = 0
    /\ lock_owner = 0
    /\ pc = [t \in Threads |-> "idle"]
    /\ held = [t \in Threads |-> 0]
    /\ seen = [t \in Threads |-> {}]
    /\ txn = [t \in Threads |-> NoTxn]
    /\ scenario = ScenarioOff
    /\ raised = FALSE
    /\ last = NoCall

ConnVars ==
    <<conn, pool, pool_size, lock_owner, pc, held, seen, txn, params,
      scenario, raised, last>>

\* ---- Statement.execute, Connection.update, Connection.delete ----
\* The queries: every string of up to MaxSqlLen of the characters the
\* pattern tells apart, with up to MaxArgs positional arguments and the
\* keyword argument a; and the updates and deletes of table t.
Drivers == {"mysql", "sqlite"}
Chars == {"?", ":", "a", "'", "\"", Backslash}
Values == {Scalar(1), List(<<2, 3>>)}
KwValues == {Scalar(4), List(<<>>)}
Tuples(S, n) == UNION {[1..m -> S] : m \in 0..n}
Kwargs == {<<>>} \cup {[name \in {<<"a">>} |-> v] : v \in KwValues}
Dicts(columns) ==
    {d \in Tuples(columns \X Values, Cardinality(columns)) :
        \A i, j \in 1..Len(d) : i # j => d[i][1] # d[j][1]}

StatementQueries(len, n) ==
    {[NoQuery EXCEPT !.kind = "execute", !.driver = d, !.sql = sql,
                     !.args = args, !.kwargs = kwargs] :
        d \in Drivers, sql \in Tuples(Chars, len),
        args \in Tuples(Values, n), kwargs \in Kwargs}

UpdateQueries ==
    {[NoQuery EXCEPT !.kind = kind, !.driver = d, !.values = values_,
                     !.identifier = identifier] :
        kind \in {"update", "delete"}, d \in Drivers,
        values_ \in Dicts({"a"}), identifier \in Dicts({"b", "c"})}

InitStatement ==
    /\ NoConnection
    /\ NoDriver
    /\ sb = SQLBuilder("sqlite", <<>>)
    /\ calls = 0
    /\ ret = NoRet
    /\ query \in StatementQueries(MaxSqlLen, MaxArgs) \cup UpdateQueries

StatementExecute ==
    /\ query.kind = "execute"
    /\ ret.op = "none"
    /\ ret' = [NoRet EXCEPT !.op = "execute",
                            !.run = execute(query.driver, query.sql,
                                            query.args, query.kwargs)]
    /\ UNCHANGED <<ConnVars, OtherVars, sb, query, calls>>

\* The result of SQLBuilder.execute as the history of the call.
Executed(op, r) ==
    [NoRet EXCEPT !.op = op, !.err = r.err, !.run = r.run,
                  !.args = r.args, !.kwargs = r.kwargs]

ConnectionUpdate ==
    /\ query.kind = "update"
    /\ ret.op = "none"
    /\ ret' = Executed("update",
                       Connection_update(query.driver, query.table,
                                         query.values, query.identifier))
    /\ UNCHANGED <<ConnVars, OtherVars, sb, query, calls>>

ConnectionDelete ==
    /\ query.kind = "delete"
    /\ query.values = <<>>
    /\ ret.op = "none"
    /\ ret' = Executed("delete",
                       Connection_delete(query.driver, query.table,
                                         query.identifier))
    /\ UNCHANGED <<ConnVars, OtherVars, sb, query, calls>>

NextStatement ==
    \/ StatementExecute
    \/ ConnectionUpdate
    \/ ConnectionDelete

SpecStatement == InitStatement /\ [][NextStatement]_vars


\* ---- SQLBuilder: mutators and get_sql ----
\* One builder, up to MaxCalls calls.  The platform and the order in which
\* a dict iterates the table references t and a are fixed at construction.
Platforms == {"mysql", "sqlite"}
HashOrders == {<<"t", "a">>, <<"a", "t">>}
PartNames ==
    <<"select", "from", "join", "set", "where", "group_by", "having",
      "order_by", "values">>

InitBuilder ==
    /\ NoConnection
    /\ NoDriver
    /\ query = NoQuery
    /\ calls = 0
    /\ ret = NoRet
    /\ sb \in {SQLBuilder(platform, hash_order) :
                 platform \in Platforms, hash_order \in HashOrders}

\* A call of the mutator op that leaves the builder b.
Mutated(op, b) ==
    /\ calls < MaxCalls
    /\ calls' = calls + 1
    /\ sb' = b
    /\ ret' = [NoRet EXCEPT !.op = op]
    /\ UNCHANGED <<ConnVars, OtherVars, query>>

Select == Mutated("select", select(sb, <<<<"x">>>>))
AddSelect == Mutated("add_select", add_select(sb, <<<<"y">>>>))
From == \E alias \in {None, "a"} : Mutated("from_", from_(sb, "t", alias))
Insert == Mutated("insert", insert(sb, "t"))
Update == Mutated("update", update(sb, "t", None))
Delete == Mutated("delete", delete(sb, "t", None))
Join ==
    \E type_ \in {"inner", "left", "right"} :
        Mutated("join", join_(sb, type_, "a", "u", "b", <<<<"c">>>>))
Set == Mutated("set", set(sb, <<"c">>, <<"1">>))
SetValue ==
    \E value \in {<<"1">>, <<"2">>}, at \in 1..(Len(sb._sql_parts.values) + 1) :
        Mutated("set_value", set_value(sb, <<"c">>, value, at))
ValuesCall ==
    \E dict \in {<<>>, <<<<<<"d">>, <<"3">>>>>>} :
        Mutated("values", values(sb, dict))
Where == Mutated("where", where(sb, "where", <<<<"p">>>>))
AndWhere == Mutated("and_where", and_where(sb, "where", "AND", <<<<"q">>>>))
OrWhere == Mutated("or_where", and_where(sb, "where", "OR", <<<<"q">>>>))
GroupBy == Mutated("group_by", group_by(sb, <<<<"g">>>>))
Having == Mutated("having", where(sb, "having", <<<<"h">>>>))
OrderBy == Mutated("order_by", order_by(sb, <<"o">>, "asc"))
ResetSqlPart ==
    \E i \in 1..Len(PartNames) :
        Mutated("reset_sql_part", reset_sql_part(sb, PartNames[i]))
ResetSqlParts == Mutated("reset_sql_parts", reset_sql_parts(sb, PartNames))
SetFirstResult == Mutated("set_first_result", set_first_result(sb, <<1>>))
SetMaxResults == Mutated("set_max_results", set_max_results(sb, <<2>>))

GetSql ==
    /\ calls < MaxCalls
    /\ calls' = calls + 1
    /\ LET got == get_sql(sb)
       IN  /\ sb' = got.b
           /\ ret' = [NoRet EXCEPT !.op = "get_sql", !.sql = got.sql,
                                   !.err = got.err,
                                   !.rendered = got.rendered]
    /\ UNCHANGED <<ConnVars, OtherVars, query>>

NextBuilder ==
    \/ Select
    \/ AddSelect
    \/ From
    \/ Insert
    \/ Update
    \/ Delete
    \/ Join
    \/ Set
    \/ SetValue
    \/ ValuesCall
    \/ Where
    \/ AndWhere
    \/ OrWhere
    \/ GroupBy
    \/ Having
    \/ OrderBy
    \/ ResetSqlPart
    \/ ResetSqlParts
    \/ SetFirstResult
    \/ SetMaxResults
    \/ GetSql

SpecBuilder == InitBuilder /\ [][NextBuilder]_vars


\* ---- SQLBuilder: from_ and the joins ----
\* A SELECT builder with up to MaxFrom tables t, aliased a or b, and up to
\* MaxJoins joins of table u from a or b to b or c, in any order.
FromAliases == {"a", "b"}
JoinSources == {"a", "b"}
JoinTargets == {"b", "c"}
JoinHashOrders == {<<"a", "b">>, <<"b", "a">>}

RECURSIVE JoinList(_)
\* Every join of the "join" dict as <<source, target>>.
JoinList(joins) ==
    IF joins = <<>> THEN <<>>
    ELSE [i \in 1..Len(Head(joins)[2]) |->
            <<Head(joins)[1], Head(joins)[2][i][3]>>]
         \o JoinList(Tail(joins))

InitJoins ==
    /\ NoConnection
    /\ NoDriver
    /\ query = NoQuery
    /\ calls = 0
    /\ ret = NoRet
    /\ sb \in {SQLBuilder("sqlite", hash_order) :
                 hash_order \in JoinHashOrders}

Called(op, b) ==
    /\ sb' = b
    /\ ret' = [NoRet EXCEPT !.op = op]
    /\ UNCHANGED <<ConnVars, OtherVars, query, calls>>

JoinsFrom ==
    /\ Len(sb._sql_parts.from) < MaxFrom
    /\ \E alias \in FromAliases : Called("from_", from_(sb, "t", alias))

JoinCall(type_) ==
    /\ Len(JoinList(sb._sql_parts.join)) < MaxJoins
    /\ \E from_alias \in JoinSources, alias \in JoinTargets :
           Called(type_,
                  join_(sb, type_, from_alias, "u", alias, <<<<"c">>>>))

InnerJoin == JoinCall("inner")
LeftJoin == JoinCall("left")
RightJoin == JoinCall("right")

JoinsGetSql ==
    /\ LET got == get_sql(sb)
       IN  /\ sb' = got.b
           /\ ret' = [NoRet EXCEPT !.op = "get_sql", !.sql = got.sql,
                                   !.err = got.err,
                                   !.rendered = got.rendered]
    /\ UNCHANGED <<ConnVars, OtherVars, query, calls>>

NextJoins ==
    \/ JoinsFrom
    \/ InnerJoin
    \/ LeftJoin
    \/ RightJoin
    \/ JoinsGetSql

SpecJoins == InitJoins /\ [][NextJoins]_vars


\* ---- SQLBuilder: parameters and execute ----
\* One builder on a connected SQLite connection, up to MaxParamCalls calls;
\* the dict of parameters then holds at most five keys and keeps its first
\* table.  The value a call records tells the call: NewValue(i) is the
\* i-th value of the call in progress.  ret.arg lists the keys that
\* create_named_parameter and create_positional_parameter have recorded.
IntKeys == {0, 1, 8}
NewValue(i) == Scalar(10 * (calls + 1) + i)
FreeSlots(table) == {i \in Slots : table[i + 1] = <<>>}

InitParams ==
    /\ NoConnection
    /\ NoDriver
    /\ query = NoQuery
    /\ calls = 0
    /\ ret = NoRet
    /\ sb = SQLBuilder("sqlite", <<>>)

\* A call that leaves the builder b, having recorded the keys created.
Recorded(op, b, created) ==
    /\ calls < MaxParamCalls
    /\ calls' = calls + 1
    /\ sb' = b
    /\ ret' = [NoRet EXCEPT !.op = op, !.arg = ret.arg \o created]
    /\ UNCHANGED <<ConnVars, OtherVars, query>>

SetParameter ==
    \/ \E n \in IntKeys :
           Recorded("set_parameter",
                    set_parameter(sb, IntKey(n), NewValue(0), 0), <<>>)
    \/ \E free \in FreeSlots(sb._params) :
           Recorded("set_parameter",
                    set_parameter(sb, StrKey(<<":", "n">>), NewValue(0),
                                  free), <<>>)

SetParameters ==
    \E n \in 0..2 :
        Recorded("set_parameters",
                 set_parameters(sb, [i \in 1..n |-> NewValue(i)]), <<>>)

CreateNamedParameter ==
    \E free \in FreeSlots(sb._params) :
        LET made == create_named_parameter(sb, NewValue(0), free)
        IN  Recorded("create_named_parameter", made.b,
                     <<StrKey(Tail(made.placeholder))>>)

CreatePositionalParameter ==
    LET made == create_positional_parameter(sb, NewValue(0))
    IN  Recorded("create_positional_parameter", made.b,
                 <<IntKey(sb._param_counter)>>)

\* and_where(expr.eq("c", "?"))
WherePlaceholder ==
    Recorded("and_where",
             and_where(sb, "where", "AND", <<eq(<<"c">>, <<"?">>)>>), <<>>)

Execute ==
    /\ calls < MaxParamCalls
    /\ calls' = calls + 1
    /\ LET r == builder_execute(sb, "sqlite")
       IN  /\ sb' = r.b
           /\ ret' = [Executed("execute", r) EXCEPT !.arg = ret.arg]
    /\ UNCHANGED <<ConnVars, OtherVars, query>>

NextParams ==
    \/ SetParameter
    \/ SetParameters
    \/ CreateNamedParameter
    \/ CreatePositionalParameter
    \/ WherePlaceholder
    \/ Execute

SpecParams == InitParams /\ [][NextParams]_vars


\* ---- SQLBuilder: where and having ----
\* One builder, up to MaxWhereCalls calls of where, and_where, or_where,
\* having, and_having and or_having, each with one or two predicates of
\* which some may be the empty string.  ret.arg holds the predicates of the
\* last call.
Predicates ==
    {<<<<>>>>, <<<<"p">>>>, <<<<"q">>>>, <<<<"p">>, <<>>>>,
     <<<<"p">>, <<"q">>>>}

InitWhere ==
    /\ NoConnection
    /\ NoDriver
    /\ query = NoQuery
    /\ calls = 0
    /\ ret = NoRet
    /\ sb = SQLBuilder("sqlite", <<>>)

Combined(op, predicates, b) ==
    /\ calls < MaxWhereCalls
    /\ calls' = calls + 1
    /\ sb' = b
    /\ ret' = [NoRet EXCEPT !.op = op, !.arg = predicates]
    /\ UNCHANGED <<ConnVars, OtherVars, query>>

WhereCall ==
    \E predicates \in Predicates :
        Combined("where", predicates, where(sb, "where", predicates))
AndWhereCall ==
    \E predicates \in Predicates :
        Combined("and_where", predicates,
                 and_where(sb, "where", "AND", predicates))
OrWhereCall ==
    \E predicates \in Predicates :
        Combined("or_where", predicates,
                 and_where(sb, "where", "OR", predicates))
HavingCall ==
    \E predicates \in Predicates :
        Combined("having", predicates, where(sb, "having", predicates))
AndHavingCall ==
    \E predicates \in Predicates :
        Combined("and_having", predicates,
                 and_where(sb, "having", "AND", predicates))
OrHavingCall ==
    \E predicates \in Predicates :
        Combined("or_having", predicates,
                 and_where(sb, "having", "OR", predicates))

NextWhere ==
    \/ WhereCall
    \/ AndWhereCall
    \/ OrWhereCall
    \/ HavingCall
    \/ AndHavingCall
    \/ OrHavingCall

SpecWhere == InitWhere /\ [][NextWhere]_vars


\* ---- properties ----
\* The Connection of SpecConn, and the kinds of statement a call has issued.
TheConn == conn[1]
Kinds(stmts) == {stmts[i].kind : i \in 1..Len(stmts)}
InScope(t) == pc[t] \in {"body", "exit"}
SavepointName(n) == <<"PYDBAL_SAVEPOINT_", n>>

\* C1: two threads that are both inside a locked() scope never hold the same
\* Connection.
C1_DistinctConnections ==
    \A t1 \in Threads : \A t2 \in Threads \ {t1} :
        InScope(t1) /\ InScope(t2) => held[t1] # held[t2]

\* C2: as long as no call on the Connection has raised, nesting >= 0 and
\* rollback_only is set only while nesting > 0.
C2_NestingInvariant ==
    ~raised =>
        /\ TheConn.nesting >= 0
        /\ (TheConn.nesting = 0 => ~TheConn.rollback_only)

C2_Witness ==
    /\ ~raised
    /\ last.op = "rollback"
    /\ TheConn.nesting = 1
    /\ TheConn.rollback_only

TransactionStateUnchanged ==
    /\ TheConn'.nesting = TheConn.nesting
    /\ TheConn'.rollback_only = TheConn.rollback_only
    /\ TheConn'.auto_commit = TheConn.auto_commit
    /\ last'.stmts = <<>>

\* C3: commit() without a transaction raises no-active-transaction, commit()
\* in a transaction marked rollback-only raises commit-failed-rollback-only,
\* rollback() and set_rollback_only() without a transaction raise
\* no-active-transaction; in each case no statement is sent to the driver and
\* nesting, rollback_only and auto_commit keep their values.
C3_ErrorCases ==
    [][/\ (last'.op = "commit" /\ TheConn.nesting = 0) =>
            (last'.err = "no_active_transaction" /\ TransactionStateUnchanged)
       /\ (last'.op = "commit" /\ TheConn.nesting > 0 /\ TheConn.rollback_only) =>
            (last'.err = "commit_failed_rollback_only" /\ TransactionStateUnchanged)
       /\ (last'.op \in {"rollback", "set_rollback_only"} /\ TheConn.nesting = 0) =>
            (last'.err = "no_active_transaction" /\ TransactionStateUnchanged)
      ]_vars

C3_Witness ==
    /\ last.op = "commit"
    /\ last.err = "commit_failed_rollback_only"
    /\ TheConn.nesting > 0
    /\ TheConn.rollback_only


Reached(e) == e \notin {"connection_closed", "driver_exception"}
DriverKinds == {"BEGIN", "COMMIT", "ROLLBACK"}
SavepointKinds == {"SAVEPOINT", "RELEASE SAVEPOINT", "ROLLBACK TO SAVEPOINT"}

\* C4: with nest_with_savepoints, a begin_transaction that raises the depth
\* to n >= 2 sends SAVEPOINT PYDBAL_SAVEPOINT_n, a commit / rollback at depth
\* n >= 2 sends RELEASE SAVEPOINT / ROLLBACK TO SAVEPOINT of the same name,
\* and BEGIN, COMMIT and ROLLBACK are sent only by calls at depth 1.  On a new
\* connection in the default auto-commit mode, begin; begin; rollback; commit
\* sends BEGIN, SAVEPOINT PYDBAL_SAVEPOINT_2, ROLLBACK TO SAVEPOINT
\* PYDBAL_SAVEPOINT_2, COMMIT and ends with nesting 0.
C4_SavepointCycle ==
    [][/\ (/\ last'.op = "begin_transaction"
           /\ TheConn.nest_with_savepoints /\ TheConn.nesting >= 1
           /\ Reached(last'.err)) =>
            last'.stmts = <<Stmt("SAVEPOINT", SavepointName(TheConn.nesting + 1))>>
       /\ (/\ last'.op = "commit"
           /\ TheConn.nest_with_savepoints /\ TheConn.nesting >= 2
           /\ ~TheConn.rollback_only /\ Reached(last'.err)) =>
            last'.stmts = <<Stmt("RELEASE SAVEPOINT", SavepointName(TheConn.nesting))>>
       /\ (/\ last'.op = "rollback"
           /\ TheConn.nest_with_savepoints /\ TheConn.nesting >= 2
           /\ Reached(last'.err)) =>
            last'.stmts = <<Stmt("ROLLBACK TO SAVEPOINT", SavepointName(TheConn.nesting))>>
       /\ (last'.op = "begin_transaction" /\ TheConn.nesting >= 1) =>
            Kinds(last'.stmts) \cap DriverKinds = {}
       /\ (last'.op \in {"commit", "rollback"} /\ TheConn.nesting >= 2) =>
            Kinds(last'.stmts) \cap DriverKinds = {}
       /\ (last'.op = "begin_transaction" /\ TheConn.nesting = 0) =>
            Kinds(last'.stmts) \cap SavepointKinds = {}
       /\ (last'.op \in {"commit", "rollback"} /\ TheConn.nesting <= 1) =>
            Kinds(last'.stmts) \cap SavepointKinds = {}
       /\ (/\ scenario'.n = Len(Scenario) /\ last'.err = "none"
           /\ TheConn.nest_with_savepoints /\ params.auto_commit) =>
            /\ scenario'.stmts = <<BEGIN_, Stmt("SAVEPOINT", SavepointName(2)),
                                   Stmt("ROLLBACK TO SAVEPOINT", SavepointName(2)),
                                   COMMIT_>>
            /\ TheConn'.nesting = 0
      ]_vars

C4_Witness ==
    /\ scenario.n = Len(Scenario)
    /\ last.op = "commit"
    /\ last.err = "none"
    /\ params.auto_commit
    /\ TheConn.nest_with_savepoints
    /\ Len(scenario.stmts) = 4

\* C5: without savepoints a rollback() at nesting >= 2 sends nothing to the
\* driver, sets rollback_only and decrements nesting; while the flag is set
\* in a transaction every commit() raises commit-failed-rollback-only, and the
\* flag stays set until a rollback() runs at nesting 1, which sends ROLLBACK
\* and, when it returns, has cleared the flag.  begin; begin; rollback; commit
\* on a new connection raises commit-failed-rollback-only at the commit.
C5_RollbackOnly ==
    [][/\ (/\ last'.op = "rollback" /\ last'.err = "none"
           /\ ~TheConn.nest_with_savepoints /\ TheConn.nesting >= 2) =>
            /\ last'.stmts = <<>>
            /\ TheConn'.rollback_only
            /\ TheConn'.nesting = TheConn.nesting - 1
       /\ (last'.op = "commit" /\ TheConn.rollback_only /\ TheConn.nesting > 0) =>
            last'.err = "commit_failed_rollback_only"
       /\ (/\ TheConn.rollback_only /\ TheConn.nesting > 0
           /\ ~(TheConn'.rollback_only /\ TheConn'.nesting > 0)) =>
            /\ last'.op \in {"rollback", "transaction_return", "transaction_raise"}
            /\ TheConn.nesting = 1
            /\ "ROLLBACK" \in Kinds(last'.stmts)
       /\ (last'.op = "rollback" /\ last'.err = "none" /\ TheConn.nesting = 1) =>
            /\ "ROLLBACK" \in Kinds(last'.stmts)
            /\ ~TheConn'.rollback_only
       /\ (scenario'.n = Len(Scenario) /\ ~TheConn.nest_with_savepoints) =>
            last'.err = "commit_failed_rollback_only"
      ]_vars

C5_Witness ==
    /\ scenario.n = Len(Scenario)
    /\ ~TheConn.nest_with_savepoints
    /\ last.op = "commit"
    /\ last.err = "commit_failed_rollback_only"
    /\ scenario.stmts = <<BEGIN_>>

\* C6: a commit() or rollback() that runs at nesting 1 and returns leaves,
\* when auto_commit is false, nesting 1 with BEGIN the statement sent right
\* after COMMIT / ROLLBACK, and, when auto_commit is true, nesting 0 with no
\* BEGIN sent.
C6_AutoBegin ==
    [][(last'.op \in {"commit", "rollback"} /\ last'.err = "none"
        /\ TheConn.nesting = 1) =>
          IF TheConn.auto_commit
          THEN /\ TheConn'.nesting = 0
               /\ last'.stmts = <<IF last'.op = "commit" THEN COMMIT_ ELSE ROLLBACK_>>
          ELSE /\ TheConn'.nesting = 1
               /\ last'.stmts = <<IF last'.op = "commit" THEN COMMIT_ ELSE ROLLBACK_,
                                  BEGIN_>>
      ]_vars

C6_Witness ==
    /\ last.op = "commit"
    /\ last.err = "none"
    /\ ~TheConn.auto_commit
    /\ TheConn.nesting = 1
    /\ last.stmts = <<COMMIT_, BEGIN_>>


\* C7: when the callback of transaction() returns and commit succeeds the
\* call returns; when the callback or the commit raises e, rollback() is
\* performed exactly once, at the level transaction() opened, and e is the
\* exception that reaches the caller.  Stated for the calls in which the
\* driver does not fail during the rollback.
C7_RollbackAndReraise ==
    [][(/\ last'.op \in {"transaction_return", "transaction_raise"}
        /\ (last'.err \in {"driver_error", "driver_exception"} =>
               last'.err = last'.orig)) =>
          IF last'.orig = "none"
          THEN last'.err = "none" /\ last'.rollbacks = 0
          ELSE /\ last'.rollbacks = 1
               /\ last'.at = last'.entry + 1
               /\ last'.err = last'.orig
      ]_vars

\* C8: when the scope of a SafeConnection.transaction call whose transaction
\* was begun ends and flags the connection free, the connection has nesting
\* 0 and the last statement it sent to the driver is COMMIT or ROLLBACK.
C8_TransactionCompleteOnRelease ==
    [][\A t \in Threads :
          (pc[t] = "exit" /\ txn[t].finished /\ pc'[t] = "idle") =>
              /\ conn'[held[t]].nesting = 0
              /\ conn'[held[t]].last_statement.kind \in {"COMMIT", "ROLLBACK"}
      ]_vars

CommitAllStatements(c, b) ==
    [i \in 1..(c.nesting - 1) |->
        IF c.nest_with_savepoints
        THEN Stmt("RELEASE SAVEPOINT", SavepointName(c.nesting + 1 - i))
        ELSE NoStmt]
    \o <<COMMIT_>> \o (IF b THEN <<>> ELSE <<BEGIN_>>)

Issued(stmts) == SelectSeq(stmts, LAMBDA x : x # NoStmt)

\* C9: set_auto_commit(b) with b the current mode changes nothing and sends
\* nothing.  With another b, on a connected Connection inside a transaction
\* that is not rollback-only, commit_all terminates; when it returns every
\* level has been committed, innermost first, and nesting is 0 for b true
\* and 1, in a transaction just begun, for b false.
C9_SetAutoCommit ==
    [][/\ \A b \in BOOLEAN :
            (/\ last'.op = (IF b THEN "set_auto_commit_true"
                            ELSE "set_auto_commit_false")
             /\ b = TheConn.auto_commit) =>
                /\ conn' = conn
                /\ last'.stmts = <<>>
                /\ last'.err = "none"
       /\ \A b \in BOOLEAN :
            (/\ last'.op = (IF b THEN "set_auto_commit_true"
                            ELSE "set_auto_commit_false")
             /\ b # TheConn.auto_commit
             /\ TheConn.connected /\ TheConn.nesting > 0
             /\ ~TheConn.rollback_only) =>
                /\ last'.err # "diverged"
                /\ last'.err = "none" =>
                     /\ TheConn'.auto_commit = b
                     /\ TheConn'.nesting = (IF b THEN 0 ELSE 1)
                     /\ last'.stmts = Issued(CommitAllStatements(TheConn, b))
      ]_vars

C9_Witness ==
    /\ last.op = "set_auto_commit_false"
    /\ last.err = "none"
    /\ TheConn.nesting = 1
    /\ Len(last.stmts) = 4

\* C10: set_nest_transactions_with_savepoints raises inside a transaction
\* and on a platform without savepoints, and leaves the flag as it was; the
\* flag at the commit or rollback of a level is the flag at the
\* begin_transaction that opened the level.
C10_SavepointPolicyFixed ==
    [][/\ (/\ last'.op = "set_nest_transactions_with_savepoints"
           /\ (TheConn.nesting > 0 \/ ~TheConn.savepoints_supported)) =>
            /\ last'.err = (IF TheConn.nesting > 0
                            THEN "may_not_alter_in_transaction"
                            ELSE "savepoints_not_supported")
            /\ TheConn'.nest_with_savepoints = TheConn.nest_with_savepoints
       /\ (/\ last'.op \in {"commit", "rollback", "transaction_return",
                            "transaction_raise"}
           /\ TheConn.nesting > 0) =>
            /\ Len(TheConn.opened) = TheConn.nesting
            /\ TheConn.opened[TheConn.nesting] = TheConn.nest_with_savepoints
      ]_vars

C10_Witness ==
    /\ last.op = "set_nest_transactions_with_savepoints"
    /\ last.err = "may_not_alter_in_transaction"
    /\ TheConn.nesting > 0
    /\ TheConn.nest_with_savepoints

\* ---- properties of Statement.execute ----
\* The quoted literals of a query, read from left to right: a quote opens a
\* literal, which the next quote of the same kind that no backslash escapes
\* closes.  open is "" outside a literal and the opening quote inside one.
RECURSIVE InLiteral(_, _, _)
InLiteral(sql, i, open) ==
    IF i > Len(sql) THEN {}
    ELSE IF sql[i] = Backslash
    THEN (IF open = "" THEN {} ELSE {i, i + 1} \cap (1..Len(sql)))
         \cup InLiteral(sql, i + 2, open)
    ELSE IF open = ""
    THEN IF sql[i] \in Quotes THEN {i} \cup InLiteral(sql, i + 1, sql[i])
         ELSE InLiteral(sql, i + 1, "")
    ELSE {i} \cup InLiteral(sql, i + 1, IF sql[i] = open THEN "" ELSE open)

\* Every literal of the query is closed and no backslash ends the query.
RECURSIVE WellFormed(_, _, _)
WellFormed(sql, i, open) ==
    IF i > Len(sql) THEN open = ""
    ELSE IF sql[i] = Backslash
    THEN i + 1 <= Len(sql) /\ WellFormed(sql, i + 2, open)
    ELSE IF open = ""
    THEN WellFormed(sql, i + 1, IF sql[i] \in Quotes THEN sql[i] ELSE "")
    ELSE WellFormed(sql, i + 1, IF sql[i] = open THEN "" ELSE open)

\* The placeholders of a query from position i on, in textual order: the
\* "?" and the ":name" outside the quoted literals.
RECURSIVE Placeholders(_, _)
Placeholders(sql, i) ==
    IF i > Len(sql) THEN <<>>
    ELSE IF i \in InLiteral(sql, 1, "") THEN Placeholders(sql, i + 1)
    ELSE IF sql[i] = "?" THEN <<<<"?">>>> \o Placeholders(sql, i + 1)
    ELSE IF /\ sql[i] = ":"
            /\ (i = 1 \/ sql[i - 1] # ":")
            /\ i + 1 <= Len(sql)
            /\ sql[i + 1] \in NameChars
    THEN <<SubSeq(sql, i, name_end(sql, i + 1))>>
         \o Placeholders(sql, name_end(sql, i + 1) + 1)
    ELSE Placeholders(sql, i + 1)

\* The parameter vector the placeholders ask for: the n-th "?" takes the
\* n-th positional argument, ":name" the keyword argument name.
RECURSIVE Bound(_, _, _, _, _)
Bound(places, j, n, args, kwargs) ==
    IF j > Len(places) THEN [err |-> "none", exec_params |-> <<>>]
    ELSE IF places[j] = <<"?">>
    THEN IF n + 1 > Len(args)
         THEN [err |-> "missing_positional_parameter", exec_params |-> <<>>]
         ELSE LET rest == Bound(places, j + 1, n + 1, args, kwargs)
              IN  [rest EXCEPT !.exec_params = args[n + 1].items \o @]
    ELSE IF Tail(places[j]) \notin DOMAIN kwargs
    THEN [err |-> "missing_named_parameter", exec_params |-> <<>>]
    ELSE LET rest == Bound(places, j + 1, n, args, kwargs)
         IN  [rest EXCEPT !.exec_params = kwargs[Tail(places[j])].items \o @]

\* C15: Statement.execute binds the i-th "?" outside the quoted literals to
\* positional argument i and each ":name" to the keyword argument name, the
\* outgoing vector holds the bound values in the order of the placeholders,
\* and a placeholder without its argument raises the missing-parameter
\* error of its kind without a call of the driver.
C15_PlaceholdersBound ==
    (ret.op = "execute" /\ WellFormed(query.sql, 1, "")) =>
        LET want == Bound(Placeholders(query.sql, 1), 1, 0,
                          query.args, query.kwargs)
        IN  /\ ret.run.err = want.err
            /\ ret.run.executed = (want.err = "none")
            /\ want.err = "none" => ret.run.exec_params = want.exec_params

\* C17: the rewriting replaces no "?" and no ":name" that lies inside a
\* quoted literal, so the literals pass unchanged and take no parameter.
C17_LiteralsUntouched ==
    (ret.op = "execute" /\ WellFormed(query.sql, 1, "")) =>
        \A j \in 1..Len(ret.run.matches) :
            ret.run.matches[j].at \notin InLiteral(query.sql, 1, "")

\* The number of driver placeholders in a replacement text.
Count(text, placeholder) ==
    Cardinality({i \in 1..Len(text) : text[i] = placeholder})

RECURSIVE Sum(_)
Sum(numbers) == IF numbers = <<>> THEN 0 ELSE Head(numbers) + Sum(Tail(numbers))

RECURSIVE Items(_)
Items(dict) == IF dict = <<>> THEN <<>> ELSE Head(dict)[2].items \o Items(Tail(dict))

\* The text a value takes in the query sent to the driver, as a string.
RECURSIVE PlaceholderList(_, _)
PlaceholderList(placeholder, k) ==
    IF k = 0 THEN ""
    ELSE IF k = 1 THEN placeholder
    ELSE placeholder \o ", " \o PlaceholderList(placeholder, k - 1)

ValueText(value, placeholder) ==
    IF value.list THEN PlaceholderList(placeholder, Len(value.items))
    ELSE placeholder

SetText(values_, placeholder) ==
    IF values_ = <<>> THEN ""
    ELSE " SET " \o values_[1][1] \o " = " \o ValueText(values_[1][2], placeholder)

Condition(entry, placeholder) ==
    IF entry[2].list
    THEN entry[1] \o " IN (" \o ValueText(entry[2], placeholder) \o ")"
    ELSE entry[1] \o " = " \o placeholder

WhereText(identifier, placeholder) ==
    IF identifier = <<>> THEN ""
    ELSE IF Len(identifier) = 1
    THEN " WHERE " \o Condition(identifier[1], placeholder)
    ELSE " WHERE (" \o Condition(identifier[1], placeholder) \o ") AND ("
         \o Condition(identifier[2], placeholder) \o ")"

\* C16: a list or tuple of length k is replaced by k driver placeholders
\* joined by ", " and appends its k elements, a scalar gives one placeholder
\* and one element, so the placeholders emitted are as many as the outgoing
\* parameters; Connection.update and Connection.delete render a list-valued
\* identifier column as "column IN (" k placeholders ")" and bind the set
\* values followed by the identifier values.
C16_ListExpansion ==
    /\ (ret.op \in {"execute", "update", "delete"} /\ ret.run.err = "none") =>
        LET placeholder == get_placeholder(query.driver)
            run == ret.run
        IN  /\ Len(run.texts) = Len(run.bound)
            /\ \A j \in 1..Len(run.bound) :
                   Str(run.texts[j]) = ValueText(run.bound[j], placeholder)
            /\ run.exec_params =
                   Items([j \in 1..Len(run.bound) |-> <<j, run.bound[j]>>])
            /\ Sum([j \in 1..Len(run.texts) |->
                      Count(run.texts[j], placeholder)])
               = Len(run.exec_params)
    /\ ret.op \in {"update", "delete"} =>
        LET placeholder == get_placeholder(query.driver)
        IN  /\ ret.err = "none"
            /\ ret.run.err = "none"
            /\ ret.run.executed
            /\ Str(ret.run.sql) =
                   (IF ret.op = "update" THEN "UPDATE " ELSE "DELETE FROM ")
                   \o query.table \o SetText(query.values, placeholder)
                   \o WhereText(query.identifier, placeholder)
            /\ ret.run.exec_params
               = Items(query.values) \o Items(query.identifier)

C16_Witness ==
    /\ ret.op = "update"
    /\ query.values = <<<<"a", Scalar(1)>>>>
    /\ query.identifier = <<<<"b", List(<<2, 3>>)>>>>
    /\ Str(ret.run.sql) = "UPDATE t SET a = ? WHERE b IN (?, ?)"
    /\ ret.run.exec_params = <<1, 2, 3>>

\* ---- SQLBuilder: the cached string ----
\* The parts and the paging a rendering reads.
Rendering(b) ==
    [parts |-> b._sql_parts, type |-> b._type,
     first_result |-> b._first_result, max_results |-> b._max_results]

\* C11: every call that changes the parts, the type or the paging leaves
\* the state dirty, and what get_sql() returns (a string or an error) is
\* what a fresh render of the builder it leaves would produce.
C11_CacheNeverStale ==
    /\ (ret.op \notin {"none", "get_sql"} /\ sb._sql # <<>>
        /\ Render(sb) # Rendered(sb._sql[1])) => sb._state = "DIRTY"
    /\ ret.op = "get_sql" =>
           /\ ret.err = Render(sb).err
           /\ ret.sql = Render(sb).sql

\* C14: a get_sql() that follows a get_sql() on a builder whose state is
\* clean returns the same string without an error, does not render and
\* leaves the builder as it was.
C14_GetSqlIdempotent ==
    [][(ret.op = "get_sql" /\ sb._state = "CLEAN"
        /\ ret'.op = "get_sql" /\ calls' = calls + 1) =>
           /\ ret'.err = "none"
           /\ ret'.sql = ret.sql
           /\ ~ret'.rendered
           /\ sb' = sb]_vars

C14_Witness ==
    /\ calls = 3
    /\ ret.op = "get_sql"
    /\ ~ret.rendered
    /\ sb._state = "CLEAN"
    /\ Str(ret.sql) = "SELECT  FROM t a"

\* ---- SQLBuilder: aliases ----
\* The table references of the from entries, in order.
FromRefs(b) ==
    [i \in 1..Len(b._sql_parts.from) |->
        IF b._sql_parts.from[i][2] = None THEN b._sql_parts.from[i][1]
        ELSE b._sql_parts.from[i][2]]

Range(f) == {f[i] : i \in DOMAIN f}
JoinSourcesOf(b) == {j[1] : j \in Range(JoinList(b._sql_parts.join))}
JoinTargetsOf(b) == {j[2] : j \in Range(JoinList(b._sql_parts.join))}
Distinct(f) == \A i, j \in DOMAIN f : i # j => f[i] # f[j]

\* A join target alias equals another join target alias or a from alias.
DuplicateTarget(b) ==
    LET targets == [i \in 1..Len(JoinList(b._sql_parts.join)) |->
                      JoinList(b._sql_parts.join)[i][2]]
    IN  \/ ~Distinct(targets)
        \/ Range(targets) \cap Range(FromRefs(b)) # {}

\* No alias is given twice, by from entries or by join targets.
NoDuplicateAlias(b) == Distinct(FromRefs(b)) /\ ~DuplicateTarget(b)

\* The aliases that the joins lead to from the from entries.
RECURSIVE ReachableFrom(_, _)
ReachableFrom(b, known) ==
    LET more == {j[2] : j \in {k \in Range(JoinList(b._sql_parts.join)) :
                                  k[1] \in known}}
    IN  IF more \subseteq known THEN known
        ELSE ReachableFrom(b, known \cup more)

Reachable(b) == ReachableFrom(b, Range(FromRefs(b)))

\* C12 as stated: with no duplicated alias, get_sql() succeeds when every
\* join source alias is a from alias or a join target, and raises
\* unknown-alias otherwise.
C12_JoinSourcesKnown ==
    (ret.op = "get_sql" /\ NoDuplicateAlias(sb)) =>
        IF JoinSourcesOf(sb) \subseteq Range(FromRefs(sb)) \cup JoinTargetsOf(sb)
        THEN ret.err = "none"
        ELSE ret.err = "unknown_alias"

\* C12, amended: with no duplicated alias, get_sql() succeeds when every
\* join source alias is reached from a from entry through the joins, in
\* whatever order the joins were added, and raises unknown-alias otherwise.
C12_JoinSourcesReachable ==
    (ret.op = "get_sql" /\ NoDuplicateAlias(sb)) =>
        IF JoinSourcesOf(sb) \subseteq Reachable(sb)
        THEN ret.err = "none"
        ELSE ret.err = "unknown_alias"

\* The join of b was added before the join that makes b known.
C12_Witness ==
    /\ ret.op = "get_sql"
    /\ ret.err = "none"
    /\ JoinList(sb._sql_parts.join) = <<<<"b", "c">>, <<"a", "b">>>>
    /\ Str(ret.sql) =
           "SELECT  FROM t a LEFT JOIN u b ON c INNER JOIN u c ON c"

\* C13: get_sql() raises non-unique-alias when a join target alias equals
\* another join target alias or a from alias (unknown-alias is accepted
\* when a join source is not reached), so no SQL is rendered in which an
\* alias is declared twice.
C13_UniqueAlias ==
    (ret.op = "get_sql" /\ DuplicateTarget(sb)) =>
        \/ ret.err = "non_unique_alias"
        \/ /\ ret.err = "unknown_alias"
           /\ ~(JoinSourcesOf(sb) \subseteq Reachable(sb))

\* ---- SQLBuilder: parameters ----
\* The entry of key in the parameters, <<>> when there is none.
Entry(b, key) ==
    IF Slot(b._params, key) < 0 THEN <<>>
    ELSE b._params[Slot(b._params, key) + 1]

IntegerKeys(b) ==
    {entry[1].n : entry \in {e \in Range(iteritems(b._params)) : e[1].int}}
NamedKeys(b) ==
    {entry[1].name :
        entry \in {e \in Range(iteritems(b._params)) : ~e[1].int}}

RECURSIVE Ascending(_)
Ascending(S) ==
    IF S = {} THEN <<>>
    ELSE LET least == CHOOSE x \in S : \A y \in S : x <= y
         IN  <<least>> \o Ascending(S \ {least})

\* The values of the integer keys in ascending order of the keys.
InKeyOrder(b) ==
    [i \in 1..Cardinality(IntegerKeys(b)) |->
        Entry(b, IntKey(Ascending(IntegerKeys(b))[i]))[2]]

\* C18: execute passes the values of the integer keys in ascending key
\* order as positional arguments and the string keys as named arguments,
\* and the i-th ? of the SQL is bound to the value of the i-th smallest
\* integer key.
C18_PositionalInKeyOrder ==
    ret.op = "execute" =>
        /\ ret.args = InKeyOrder(sb)
        /\ DOMAIN ret.kwargs = NamedKeys(sb)
        /\ \A name \in NamedKeys(sb) :
               ret.kwargs[name] = Entry(sb, StrKey(name))[2]
        /\ ret.run.err = "none" =>
               \A i \in 1..Len(ret.run.bound) :
                   ret.run.bound[i] = InKeyOrder(sb)[i]

\* C19: the counter never decreases, whatever the call; a call of
\* create_named_parameter or create_positional_parameter advances it by
\* one, records the value under the key of the old counter (a named key
\* has no leading colon), keeps the entry of every key recorded by an
\* earlier such call, and the keys so recorded are pairwise distinct.
C19_MonotonicCounter ==
    [][/\ sb'._param_counter >= sb._param_counter
       /\ (calls' = calls + 1
           /\ ret'.op \in {"create_named_parameter",
                           "create_positional_parameter"}) =>
              LET key == ret'.arg[Len(ret'.arg)]
              IN  /\ sb'._param_counter = sb._param_counter + 1
                  /\ key = IF ret'.op = "create_positional_parameter"
                           THEN IntKey(sb._param_counter)
                           ELSE StrKey(<<"pyValue",
                                         ToString(sb._param_counter)>>)
                  /\ Entry(sb', key) = <<key, NewValue(0)>>
                  /\ Distinct(ret'.arg)
                  /\ \A i \in 1..Len(ret.arg) :
                         Entry(sb', ret.arg[i]) = Entry(sb, ret.arg[i])]_vars

\* A named and two positional parameters, after set_parameters.
C19_Witness ==
    /\ ret.op = "create_positional_parameter"
    /\ ret.arg = <<IntKey(0), StrKey(<<"pyValue", "1">>), IntKey(2)>>
    /\ sb._param_counter = 3
    /\ Entry(sb, IntKey(0)) = <<IntKey(0), Scalar(10)>>
    /\ Entry(sb, StrKey(<<"pyValue", "1">>))
           = <<StrKey(<<"pyValue", "1">>), Scalar(20)>>

\* ---- SQLBuilder: where and having ----
\* What the where or having part renders as: no text, or one.
ExpressionText(b, part) ==
    IF b._sql_parts[part] = <<>> THEN <<>>
    ELSE <<Str(CompositeExpression_str(b._sql_parts[part][1]))>>

\* (t1) type (t2) ... for two texts or more, t1 for one.
RECURSIVE Parenthesised(_, _)
Parenthesised(type_, texts) ==
    IF Len(texts) = 1 THEN "(" \o texts[1] \o ")"
    ELSE "(" \o texts[1] \o ") " \o type_ \o " "
         \o Parenthesised(type_, Tail(texts))

Folded(type_, texts) ==
    IF Len(texts) = 1 THEN texts[1] ELSE Parenthesised(type_, texts)

\* C20: where and having replace the expression by the AND of their
\* predicates; and_where, or_where, and_having and or_having on an
\* expression that renders as w leave one that renders as (w) AND (p) or
\* (w) OR (p), and as p alone when there was none; a call whose predicates
\* are all empty leaves the text unchanged; the other part is untouched.
C20_WhereCombinators ==
    [][calls' = calls + 1 =>
          LET op == ret'.op
              part == IF op \in {"where", "and_where", "or_where"}
                      THEN "where" ELSE "having"
              other == IF part = "where" THEN "having" ELSE "where"
              type_ == IF op \in {"or_where", "or_having"}
                       THEN "OR" ELSE "AND"
              given == SelectSeq(ret'.arg, LAMBDA p : p # <<>>)
              texts == [i \in 1..Len(given) |-> Str(given[i])]
              w == ExpressionText(sb, part)
          IN  /\ sb'._sql_parts[other] = sb._sql_parts[other]
              /\ ExpressionText(sb', part) =
                     IF given = <<>> THEN w
                     ELSE IF op \in {"where", "having"}
                     THEN <<Folded("AND", texts)>>
                     ELSE <<Folded(type_, w \o texts)>>]_vars

C20_Witness ==
    /\ ret.op = "or_where"
    /\ ret.arg = <<<<"p">>, <<>>>>
    /\ ExpressionText(sb, "where") = <<"((p) AND (q)) OR (p)">>
    /\ ExpressionText(sb, "having") = <<>>

\* ---- SafeConnection: the lock and the flags ----
\* C21: a thread that waits for a connection of a full pool (time.sleep
\* between two polls) does not hold SafeConnection.LOCK.
C21_WaitsWithoutLock ==
    \A t \in Threads : pc[t] = "sleep" => lock_owner # t

\* C22: pool_size never exceeds the capacity and is the number of pooled
\* connections, and a step that constructs a Connection is taken under the
\* lock with room in the pool and no pooled connection flagged free.
C22_PoolSize ==
    [][/\ pool_size' <= params.pool_max_size
       /\ pool_size' = Cardinality(DOMAIN pool')
       /\ pool_size' # pool_size =>
              /\ lock_owner # 0
              /\ pool_size < params.pool_max_size
              /\ \A c \in DOMAIN pool : pool[c]]_vars

\* C23: while the body of a locked() scope runs, the connection the scope
\* yielded is flagged in-use.
C23_InUseDuringScope ==
    \A t \in Threads :
        (pc[t] = "body" /\ held[t] \in DOMAIN pool) => pool[held[t]]

\* ---- MySQLDriver, SQLiteDriver ----
\* The number of calls made on the driver.
MaxDriverCalls == 5

DriverNames == {"mysql", "sqlite"}
\* The error codes _execute reconnects on.
LostCodes == {2006, 2013, 2055}
\* What a call of the client library does: it returns, or raises an exception
\* of some class with some code.
Returned == [cls |-> "none", code |-> 0]
AttributeError == [cls |-> "AttributeError", code |-> 0]
Outcomes ==
    {Returned}
    \cup [cls : {"OperationalError"}, code : LostCodes \cup {1205}]
    \cup {[cls |-> "ProgrammingError", code |-> 1064],
          [cls |-> "InterfaceError", code |-> 0]}
\* MySQLdb.OperationalError and MySQLdb.ProgrammingError derive from
\* MySQLdb.DatabaseError; MySQLdb.InterfaceError and AttributeError do not.
IsDatabaseError(o) == o.cls \in {"OperationalError", "ProgrammingError"}

\* The statements given to execute.
DriverQueries ==
    {[sql |-> <<"SELECT", "1">>, params |-> <<>>],
     [sql |-> <<"SELECT", "%s">>, params |-> <<7>>]}

\* The exception a driver call ends with.
NoError ==
    [kind |-> "none", driver |-> "", sql |-> <<>>, params |-> <<>>,
     cause |-> Returned]
\* An exception of the client library, passed on as it is.
Raw(o) == [NoError EXCEPT !.kind = "raw", !.cause = o]
\* DBALDriverError.driver_exception(driver, exception)
driver_exception(d, o) ==
    [NoError EXCEPT !.kind = "driver_exception", !.driver = d.name,
                    !.cause = o]
\* DBALDriverError.execute_exception(driver, exception, sql, params)
execute_exception(d, o, sql, given) ==
    [kind |-> "execute_exception", driver |-> d.name, sql |-> sql,
     params |-> given, cause |-> o]

\* A driver call under way: the driver, the client library, the client calls
\* made so far with their outcomes, the exception raised, and the numbers of
\* _execute_unsafe and of connect calls made.
Running(d, cl) ==
    [d |-> d, cl |-> cl, log |-> <<>>, err |-> NoError, attempts |-> 0,
     reconnects |-> 0]
ClientCall(name, o) == [call |-> name, res |-> o]

\* The smallest identifier not in S.
Fresh(S) ==
    CHOOSE i \in 1..(Cardinality(S) + 1) :
        i \notin S /\ \A j \in 1..(i - 1) : j \in S

\* Reference counting: a cursor that neither the driver nor a suspended
\* iterate() generator refers to is finalized, which closes it.
collect(d, cl) ==
    [cl EXCEPT !.cursors = {k \in @ : k = d._cursor \/ k \in cl.iterating}]

\* BaseDriver.clear of both drivers
Driver_clear(r) ==
    IF r.d._cursor # 0
    THEN [r EXCEPT !.cl.cursors = @ \ {r.d._cursor},
                   !.d._cursor = 0,
                   !.log = Append(@, ClientCall("cursor.close", Returned))]
    ELSE r

\* close of both drivers
Driver_close(r) ==
    LET c == Driver_clear(r)
    IN  IF c.d._conn # 0
        THEN [c EXCEPT !.cl.conns = @ \ {c.d._conn},
                       !.d._conn = 0,
                       !.log = Append(@, ClientCall("conn.close", Returned))]
        ELSE c

\* Mutant: connect does not close the connection it has.
Driver_connect_without_close(r, o) ==
    LET c == r
        id == Fresh(c.cl.conns)
    IN  IF o = Returned
        THEN [c EXCEPT !.cl.conns = @ \cup {id},
                       !.cl.made = @ + 1,
                       !.d._conn = id,
                       !.log = Append(@, ClientCall("connect", Returned))]
        ELSE [c EXCEPT !.log = Append(@, ClientCall("connect", o)),
                       !.err = driver_exception(c.d, o)]

\* connect of both drivers; o is what the connect of the client library does
Driver_connect(r, o) ==
    LET c == Driver_close(r)
        id == Fresh(c.cl.conns)
    IN  IF o = Returned
        THEN [c EXCEPT !.cl.conns = @ \cup {id},
                       !.cl.made = @ + 1,
                       !.d._conn = id,
                       !.log = Append(@, ClientCall("connect", Returned))]
        ELSE [c EXCEPT !.log = Append(@, ClientCall("connect", o)),
                       !.err = driver_exception(c.d, o)]

\* The cursor the client library hands out for a statement.
NewCursor(r) == Fresh(r.cl.cursors \cup r.cl.iterating \cup {r.d._cursor})

\* MySQLDriver._execute_unsafe; o is what cursor.execute does
_execute_unsafe(r, o) ==
    IF r.d._conn = 0
    THEN [r EXCEPT !.attempts = @ + 1,
                   !.log = Append(@, ClientCall("cursor", AttributeError)),
                   !.err = Raw(AttributeError)]
    ELSE LET k == NewCursor(r)
             d == [r.d EXCEPT !._cursor = k]
         IN  [r EXCEPT !.d = d,
                       !.cl = collect(d, [r.cl EXCEPT !.cursors = @ \cup {k},
                                                      !.opened = @ + 1]),
                       !.attempts = @ + 1,
                       !.log = Append(Append(@, ClientCall("cursor", Returned)),
                                      ClientCall("execute", o)),
                       !.err = IF o = Returned THEN NoError ELSE Raw(o)]

\* MySQLDriver._execute; first, reconnect and second are what the first
\* attempt, the connect and the second attempt do in the client library
_execute(r, first, reconnect, second) ==
    LET a == _execute_unsafe(r, first)
    IN  IF a.err.kind = "raw" /\ a.err.cause.cls = "OperationalError"
        THEN IF a.err.cause.code \in LostCodes
             THEN LET c == Driver_connect(
                               [a EXCEPT !.err = NoError,
                                         !.reconnects = @ + 1], reconnect)
                  IN  IF c.err.kind # "none" THEN c
                      ELSE _execute_unsafe(c, second)
             ELSE a
        ELSE a

\* MySQLDriver.execute
mysql_execute(r, q, first, reconnect, second) ==
    LET e == _execute(r, first, reconnect, second)
    IN  IF e.err.kind = "raw" /\ IsDatabaseError(e.err.cause)
        THEN [e EXCEPT !.err = execute_exception(e.d, e.err.cause, q.sql,
                                                 q.params)]
        ELSE e

\* SQLiteDriver.execute; o is what connection.execute does
sqlite_execute(r, q, o) ==
    IF r.d._conn = 0
    THEN [r EXCEPT !.attempts = @ + 1,
                   !.log = Append(@, ClientCall("execute", AttributeError)),
                   !.err = execute_exception(r.d, AttributeError, q.sql,
                                             q.params)]
    ELSE IF o = Returned
    THEN LET k == NewCursor(r)
             d == [r.d EXCEPT !._cursor = k]
         IN  [r EXCEPT !.d = d,
                       !.cl = collect(d, [r.cl EXCEPT !.cursors = @ \cup {k},
                                                      !.opened = @ + 1]),
                       !.attempts = @ + 1,
                       !.log = Append(@, ClientCall("execute", Returned))]
    ELSE [r EXCEPT !.attempts = @ + 1,
                   !.log = Append(@, ClientCall("execute", o)),
                   !.err = execute_exception(r.d, o, q.sql, q.params)]

\* iterate of both drivers, from the call to the first yield: the generator
\* is suspended inside the loop over the cursor.
iterate_first(r) ==
    IF r.d._cursor = 0 THEN r
    ELSE [r EXCEPT !.cl.iterating = @ \cup {r.d._cursor}]

\* iterate of both drivers, from a yield to the end: the loop over cursor k
\* runs out and clear() is called; the loop raises when k has been closed.
iterate_rest(r, k) ==
    LET gone == [r EXCEPT !.cl.iterating = @ \ {k}]
    IN  IF k \in r.cl.cursors
        THEN LET c == Driver_clear(gone)
             IN  [c EXCEPT !.cl = collect(c.d, @)]
        ELSE [gone EXCEPT !.err = Raw([cls |-> "ProgrammingError",
                                       code |-> 0])]

\* A suspended iterate() generator over cursor k is dropped.
iterate_dropped(r, k) ==
    LET gone == [r EXCEPT !.cl.iterating = @ \ {k}]
    IN  [gone EXCEPT !.cl = collect(gone.d, @)]

\* The last call on the driver.
DriverRet(op, q, r) ==
    [op |-> op, sql |-> q.sql, params |-> q.params, log |-> r.log,
     err |-> r.err, attempts |-> r.attempts, reconnects |-> r.reconnects]
NoDriverQuery == [sql |-> <<>>, params |-> <<>>]

\* A driver of either kind after construction.
InitDriver ==
    /\ NoConnection
    /\ sb = SQLBuilder("sqlite", <<>>)
    /\ query = NoQuery
    /\ calls = 0
    /\ drv \in {BaseDriver(name) : name \in DriverNames}
    /\ client = NoClient
    /\ cache = EmptyCache(FALSE)
    /\ cexpr = Composite("AND", <<>>)
    /\ ret = DriverRet("none", NoDriverQuery, Running(drv, client))

DriverCall(op, q, r) ==
    /\ calls < MaxDriverCalls
    /\ calls' = calls + 1
    /\ drv' = r.d
    /\ client' = r.cl
    /\ ret' = DriverRet(op, q, r)
    /\ UNCHANGED <<ConnVars, sb, query, cache, cexpr>>

DriverConnect ==
    \E o \in {Returned, [cls |-> "OperationalError", code |-> 2003]} :
        DriverCall("connect", NoDriverQuery,
                   Driver_connect(Running(drv, client), o))
DriverClose ==
    DriverCall("close", NoDriverQuery, Driver_close(Running(drv, client)))
DriverClear ==
    DriverCall("clear", NoDriverQuery, Driver_clear(Running(drv, client)))
MySQLExecute ==
    /\ drv.name = "mysql"
    /\ \E q \in DriverQueries, first, second \in Outcomes,
          reconnect \in {Returned, [cls |-> "OperationalError", code |-> 2003]} :
           DriverCall("execute", q,
                      mysql_execute(Running(drv, client), q, first,
                                    reconnect, second))
SQLiteExecute ==
    /\ drv.name = "sqlite"
    /\ \E q \in DriverQueries, o \in Outcomes :
           DriverCall("execute", q,
                      sqlite_execute(Running(drv, client), q, o))
IterateFirst ==
    DriverCall("iterate", NoDriverQuery,
               iterate_first(Running(drv, client)))
IterateRest ==
    \E k \in client.iterating :
        DriverCall("iterated", NoDriverQuery,
                   iterate_rest(Running(drv, client), k))
IterateDropped ==
    \E k \in client.iterating :
        DriverCall("dropped", NoDriverQuery,
                   iterate_dropped(Running(drv, client), k))

NextDriver ==
    \/ DriverConnect
    \/ DriverClose
    \/ DriverClear
    \/ MySQLExecute
    \/ SQLiteExecute
    \/ IterateFirst
    \/ IterateRest
    \/ IterateDropped

SpecDriver == InitDriver /\ [][NextDriver]_vars

\* C24: a driver has at most one open cursor: no cursor of an earlier
\* statement is open after a later execute.
C24_OneOpenCursor ==
    Cardinality(client.cursors) <= 1

\* The attempts to run the statement among the client calls of an execute,
\* and the connects.
IsAttempt(e) ==
    e.call = "execute" \/ (e.call = "cursor" /\ e.res # Returned)
IsConnect(e) == e.call = "connect"
Attempted(log) == SelectSeq(log, IsAttempt)
IsLost(o) == o.cls = "OperationalError" /\ o.code \in LostCodes

\* C25: one MySQLDriver.execute call makes at most two attempts and at most
\* one reconnect; a first attempt that fails with a lost-connection code is
\* followed by exactly one reconnect and exactly one retry, any other
\* failure by neither; a call whose last attempt fails, and any call that
\* fails, ends with an execute error carrying driver name, SQL and parameters.
C25_ReconnectOnceRetryOnce ==
    [][(drv.name = "mysql" /\ ret'.op = "execute" /\ drv._conn # 0) =>
           LET tried == Attempted(ret'.log)
               lost == IsLost(tried[1].res)
               final == tried[Len(tried)].res
           IN  /\ ret'.attempts <= 2
               /\ ret'.reconnects <= 1
               /\ ret'.attempts = Len(tried)
               /\ ret'.reconnects = Len(SelectSeq(ret'.log, IsConnect))
               /\ lost => ret'.reconnects = 1 /\ ret'.attempts = 2
               /\ ~lost => ret'.reconnects = 0 /\ ret'.attempts = 1
               /\ final = Returned => ret'.err = NoError
               /\ final # Returned =>
                      ret'.err = execute_exception(drv, final, ret'.sql,
                                                   ret'.params)]_vars

\* C26: close() closes the cursor and then the connection and leaves the
\* driver with neither; on a driver that has neither it makes no client call
\* and changes nothing; connect() closes in the same way before it connects;
\* at most one client connection is open, the one the driver holds.
C26_CloseIdempotent ==
    [][LET closing == (IF drv._cursor # 0
                       THEN <<ClientCall("cursor.close", Returned)>>
                       ELSE <<>>)
                      \o (IF drv._conn # 0
                          THEN <<ClientCall("conn.close", Returned)>>
                          ELSE <<>>)
       IN  /\ Cardinality(client'.conns) <= 1
           /\ client'.conns = {drv'._conn} \ {0}
           /\ ret'.op = "close" =>
                  /\ ret'.log = closing
                  /\ drv'._conn = 0 /\ drv'._cursor = 0
                  /\ ret'.err = NoError
                  /\ (drv._conn = 0 /\ drv._cursor = 0) =>
                         drv' = drv /\ client' = client
           /\ ret'.op = "connect" =>
                  /\ SubSeq(ret'.log, 1, Len(closing)) = closing
                  /\ Len(ret'.log) = Len(closing) + 1
                  /\ drv'._cursor = 0]_vars
\* A close() on a driver that was connected once and is closed already.
C26_Witness ==
    /\ ret.op = "close"
    /\ ret.log = <<>>
    /\ client.made > 0
    /\ drv._conn = 0

\* ---- pydbal.cache ----
\* The number of calls of memoized methods and of cache.clear.
MaxCacheCalls == 4
\* The capacity of the lrucache: 128 in the source, scaled down so that more
\* keys than the cache holds are in use.
CacheSize == 2

\* Memoized methods of SchemaManager: the number of their positional
\* parameters, self included, and the defaults of the trailing ones.
get_database_names ==
    [name |-> "get_database_names", co_argcount |-> 1, func_defaults |-> <<>>]
get_table_columns ==
    [name |-> "get_table_columns", co_argcount |-> 3,
     func_defaults |-> <<"None">>]
\* The calls made: the method and the positional arguments given.
CachedCalls ==
    {[func |-> get_database_names, args |-> <<"self">>]}
    \cup [func : {get_table_columns},
          args : {<<"self", "t">>, <<"self", "t", "None">>}
                 \cup {<<"self", "T", i>> : i \in 1..(CacheSize - 1)}]

\* The key a call is memoized under: the arguments are completed with the
\* defaults when fewer are given than the method has parameters.
cache_key(func, args) ==
    <<func.name,
      IF Len(args) < func.co_argcount THEN args \o func.func_defaults
      ELSE args>>

CacheIndex(c, key) ==
    IF \E i \in 1..Len(c.entries) : c.entries[i][1] = key
    THEN CHOOSE i \in 1..Len(c.entries) : c.entries[i][1] = key
    ELSE 0
Without(entries, i) ==
    SubSeq(entries, 1, i - 1) \o SubSeq(entries, i + 1, Len(entries))

\* _cache[key]: the stored value; an lrucache makes the entry the most
\* recently used one (the first).  The key is present.
cache_getitem(c, key) ==
    LET i == CacheIndex(c, key)
    IN  [value |-> c.entries[i][2],
         cache |-> IF c.lru
                   THEN [c EXCEPT !.entries = <<c.entries[i]>> \o Without(@, i)]
                   ELSE c]

\* _cache[key] = value for an absent key: a full lrucache drops its least
\* recently used entry (the last).
cache_setitem(c, key, value) ==
    IF c.lru
    THEN [c EXCEPT !.entries =
              <<<<key, value>>>>
              \o (IF Len(@) = CacheSize THEN SubSeq(@, 1, Len(@) - 1) ELSE @)]
    ELSE [c EXCEPT !.entries = Append(@, <<key, value>>)]

\* del _cache[key]; the KeyError of an absent key is discarded by the return
\* in the finally clause.
cache_delitem(c, key) ==
    LET i == CacheIndex(c, key)
    IN  IF i = 0 THEN c ELSE [c EXCEPT !.entries = Without(@, i)]

\* Mutant: a call with _cache=False leaves the stored entry where it is.
wrapper_without_eviction(c, func, args, use_cache, result) ==
    LET key == cache_key(func, args)
    IN  IF ~use_cache
        THEN [cache |-> c, value |-> result, computed |-> TRUE]
        ELSE IF CacheIndex(c, key) # 0
        THEN [cache |-> cache_getitem(c, key).cache,
              value |-> cache_getitem(c, key).value, computed |-> FALSE]
        ELSE [cache |-> cache_setitem(c, key, result), value |-> result,
              computed |-> TRUE]

\* The wrapper that cached(func) returns, called with args and _cache =
\* use_cache; result is what func returns if it is run.
wrapper(c, func, args, use_cache, result) ==
    LET key == cache_key(func, args)
    IN  IF ~use_cache
        THEN [cache |-> cache_delitem(c, key), value |-> result,
              computed |-> TRUE]
        ELSE IF CacheIndex(c, key) # 0
        THEN [cache |-> cache_getitem(c, key).cache,
              value |-> cache_getitem(c, key).value, computed |-> FALSE]
        ELSE [cache |-> cache_setitem(c, key, result), value |-> result,
              computed |-> TRUE]

\* History of the calls.  runs counts the runs of the underlying methods, and
\* the result of a run is identified by its number.  For every key: memo is
\* TRUE when the key has been called with the cache in use and neither called
\* with _cache=False nor cleared since, value is what that call returned,
\* others are the keys memoized since and not evicted by a call with
\* _cache=False, and floor is the number of runs made before the last call
\* of the key with _cache=False.
CacheKeys == {cache_key(x.func, x.args) : x \in CachedCalls}
Unknown == [memo |-> FALSE, value |-> 0, others |-> {}, floor |-> 0]
NoCacheRet ==
    [op |-> "none", key |-> <<>>, use_cache |-> TRUE, value |-> 0,
     computed |-> FALSE, runs |-> 0, known |-> [k \in CacheKeys |-> Unknown]]
Remembered(known, key, use_cache, value, runs) ==
    [k \in CacheKeys |->
        IF k = key
        THEN IF use_cache
             THEN [known[k] EXCEPT !.memo = TRUE, !.value = value,
                                   !.others = {}]
             ELSE [known[k] EXCEPT !.memo = FALSE, !.floor = runs]
        ELSE IF use_cache
             THEN [known[k] EXCEPT !.others = @ \cup {key}]
             ELSE [known[k] EXCEPT !.others = @ \ {key}]]

\* The module after import, with or without pylru.
InitCache ==
    /\ NoConnection
    /\ sb = SQLBuilder("sqlite", <<>>)
    /\ query = NoQuery
    /\ calls = 0
    /\ drv = BaseDriver("sqlite")
    /\ client = NoClient
    /\ cache \in {EmptyCache(lru) : lru \in BOOLEAN}
    /\ cexpr = Composite("AND", <<>>)
    /\ ret = NoCacheRet

CachedCall ==
    /\ calls < MaxCacheCalls
    /\ \E x \in CachedCalls, use_cache \in BOOLEAN :
           LET w == wrapper(cache, x.func, x.args, use_cache, ret.runs + 1)
               key == cache_key(x.func, x.args)
               runs == IF w.computed THEN ret.runs + 1 ELSE ret.runs
           IN  /\ cache' = w.cache
               /\ ret' = [op |-> "call", key |-> key, use_cache |-> use_cache,
                          value |-> w.value, computed |-> w.computed,
                          runs |-> runs,
                          known |-> Remembered(ret.known, key, use_cache,
                                               w.value, ret.runs)]
    /\ calls' = calls + 1
    /\ UNCHANGED <<ConnVars, sb, query, drv, client, cexpr>>

\* cache.clear()
CacheClear ==
    /\ calls < MaxCacheCalls
    /\ cache' = [cache EXCEPT !.entries = <<>>]
    /\ ret' = [ret EXCEPT !.op = "clear", !.key = <<>>, !.computed = FALSE,
                          !.known = [k \in CacheKeys |->
                                        [@[k] EXCEPT !.memo = FALSE]]]
    /\ calls' = calls + 1
    /\ UNCHANGED <<ConnVars, sb, query, drv, client, cexpr>>

NextCache ==
    \/ CachedCall
    \/ CacheClear

SpecCache == InitCache /\ [][NextCache]_vars

\* The call of this step is made with the cache in use, on a key that has
\* been called with the cache in use before, with no call with _cache=False
\* of the key and no cache.clear() since.
Repeated ==
    /\ ret'.op = "call"
    /\ ret'.use_cache
    /\ ret.known[ret'.key].memo
\* No later call returns what was computed before a call with _cache=False
\* of its key.
NothingStale ==
    ret'.op = "call" => ret'.value > ret.known[ret'.key].floor

MaxLimit == 2
MaxOffset == 2
MaxPagingCalls == 5

\* max_results and first_result: None or a number; an offset may be negative.
Limits == {<<>>} \cup {<<n>> : n \in 0..MaxLimit}
Offsets == {<<>>} \cup {<<k>> : k \in -1..MaxOffset}

InitPaging ==
    /\ NoConnection
    /\ NoDriver
    /\ query = NoQuery
    /\ calls = 0
    /\ ret = NoRet
    /\ sb \in {SQLBuilder(platform, <<"t", "a">>) : platform \in Platforms}

Paged(op, b) ==
    /\ calls < MaxPagingCalls
    /\ calls' = calls + 1
    /\ sb' = b
    /\ ret' = [NoRet EXCEPT !.op = op]
    /\ UNCHANGED <<ConnVars, OtherVars, query>>

PagingSelect == Paged("select", select(sb, <<<<"x">>>>))
PagingFrom == Paged("from_", from_(sb, "t", None))
PagingSetMaxResults ==
    \E n \in Limits : Paged("set_max_results", set_max_results(sb, n))
PagingSetFirstResult ==
    \E k \in Offsets : Paged("set_first_result", set_first_result(sb, k))
PagingGetSql ==
    /\ calls < MaxPagingCalls
    /\ calls' = calls + 1
    /\ LET got == get_sql(sb)
       IN  /\ sb' = got.b
           /\ ret' = [NoRet EXCEPT !.op = "get_sql", !.sql = got.sql,
                                   !.err = got.err,
                                   !.rendered = got.rendered]
    /\ UNCHANGED <<ConnVars, OtherVars, query>>

NextPaging ==
    \/ PagingSelect
    \/ PagingFrom
    \/ PagingSetMaxResults
    \/ PagingSetFirstResult
    \/ PagingGetSql

SpecPaging == InitPaging /\ [][NextPaging]_vars

\* The SELECT of the builder without its paging.
Unpaged(b) ==
    Str(Render([b EXCEPT !._max_results = <<>>, !._first_result = <<>>]).sql)
\* The suffix the paging adds, as the platforms document it.
PagingSuffix(platform, n, k) ==
    IF n = <<>> /\ k = <<>> THEN ""
    ELSE IF n = <<>>
    THEN (IF platform = "mysql" THEN " LIMIT 18446744073709551615 OFFSET "
          ELSE " LIMIT -1 OFFSET ") \o ToString(k[1])
    ELSE " LIMIT " \o ToString(n[1])
         \o (IF k = <<>> THEN "" ELSE " OFFSET " \o ToString(k[1]))

\* C28: get_sql of a SELECT with max_results n and first_result k returns the
\* SELECT followed by nothing when both are None, by
\* ' LIMIT 18446744073709551615 OFFSET k' (MySQL) or ' LIMIT -1 OFFSET k'
\* (SQLite) when only k is set, and by ' LIMIT n' and then ' OFFSET k' if k
\* is set otherwise; with k < 0 it raises invalid_offset and returns no SQL.
C28_Paging ==
    (ret.op = "get_sql" /\ sb._type = "SELECT") =>
        IF sb._first_result # <<>> /\ sb._first_result[1] < 0
        THEN ret.err = "invalid_offset" /\ ret.sql = <<>>
        ELSE /\ ret.err = "none"
             /\ Str(ret.sql) =
                    Unpaged(sb) \o PagingSuffix(sb.platform, sb._max_results,
                                                sb._first_result)
\* MySQL, an offset and no limit.
C28_Witness ==
    /\ ret.op = "get_sql"
    /\ sb.platform = "mysql"
    /\ sb._max_results = <<>>
    /\ sb._first_result = <<2>>
    /\ Str(ret.sql) = "SELECT x FROM t LIMIT 18446744073709551615 OFFSET 2"

\* ---- CompositeExpression with nested parts ----
\* The number of calls made on the expression.
MaxExprCalls == 3

\* len(part) and the truth value of a part: of a CompositeExpression the
\* number of its parts, of a string whether it is not empty.
__len__(part) == Len(part.parts)
Truthy(part) ==
    IF part.kind = "CompositeExpression" THEN __len__(part) > 0
    ELSE part.kind = "str" /\ part.text # ""

\* Mutant: every part is stored.
add_unfiltered(e, part) == [e EXCEPT !.parts = Append(@, part)]

\* CompositeExpression.add
add(e, part) ==
    IF (part.kind = "CompositeExpression" /\ __len__(part) > 0)
       \/ Truthy(part)
    THEN [e EXCEPT !.parts = Append(@, part)]
    ELSE e

\* CompositeExpression.add_multiple
RECURSIVE add_multiple(_, _)
add_multiple(e, parts) ==
    IF parts = <<>> THEN e
    ELSE add_multiple(add(e, Head(parts)), Tail(parts))

\* CompositeExpression.__init__
__init__(type_, parts) == add_multiple(Composite(type_, <<>>), parts)

\* CompositeExpression.__str__ and _str; joined is
\* (") " + type + " (").join of the rendered parts from the i-th on
RECURSIVE __str__(_)
RECURSIVE joined(_, _)
_str(part) ==
    IF part.kind = "CompositeExpression" THEN __str__(part) ELSE part.text
joined(e, i) ==
    IF i > Len(e.parts) THEN ""
    ELSE _str(e.parts[i])
         \o (IF i < Len(e.parts) THEN ") " \o e.type \o " (" ELSE "")
         \o joined(e, i + 1)
__str__(e) ==
    IF Len(e.parts) = 1 THEN _str(e.parts[1])
    ELSE "(" \o joined(e, 1) \o ")"

\* The parts given: None, strings, one of them empty, and expressions, one
\* of them without parts; old is the expression built so far.
GivenParts(old) ==
    {NonePart, Text(""), Text("p"), Text("q"), Composite("OR", <<>>), old}

ExprRet(op, e) ==
    [NoRet EXCEPT !.op = op, !.sql = <<__str__(e)>>]

InitComposite ==
    /\ NoConnection
    /\ sb = SQLBuilder("sqlite", <<>>)
    /\ query = NoQuery
    /\ calls = 0
    /\ drv = BaseDriver("sqlite")
    /\ client = NoClient
    /\ cache = EmptyCache(FALSE)
    /\ \E type_ \in {"AND", "OR"} :
           /\ cexpr = __init__(type_, <<>>)
           /\ ret = ExprRet("__init__", cexpr)

ExprCall(op, e) ==
    /\ calls < MaxExprCalls
    /\ calls' = calls + 1
    /\ cexpr' = e
    /\ ret' = ExprRet(op, e)
    /\ UNCHANGED <<ConnVars, DriverVars, sb, query>>

\* CompositeExpression(type_, *parts), the old expression among the parts
ExprNew ==
    \E type_ \in {"AND", "OR"}, n \in 0..2 :
        \E parts \in [1..n -> GivenParts(cexpr)] :
            ExprCall("__init__", __init__(type_, parts))
ExprAdd ==
    \E part \in GivenParts(__init__("OR", <<Text("r")>>)) :
        ExprCall("add", add(cexpr, part))
ExprAddMultiple ==
    \E n \in 0..2 :
        \E parts \in [1..n -> GivenParts(__init__("OR", <<Text("r")>>))] :
            ExprCall("add_multiple", add_multiple(cexpr, parts))

NextComposite ==
    \/ ExprNew
    \/ ExprAdd
    \/ ExprAddMultiple

SpecComposite == InitComposite /\ [][NextComposite]_vars

\* No part stored at any depth is None, an empty string or an expression
\* without parts.
RECURSIVE NothingEmpty(_)
NothingEmpty(e) ==
    \A i \in 1..Len(e.parts) :
        LET part == e.parts[i]
        IN  IF part.kind = "CompositeExpression"
            THEN part.parts # <<>> /\ NothingEmpty(part)
            ELSE part.kind = "str" /\ part.text # ""
\* (p1) T (p2) T ... T (pn) for the first n parts, one part without
\* parentheses, nested expressions rendered in the same way.
RECURSIVE Shown(_)
RECURSIVE ShownUpTo(_, _)
ShownPart(part) ==
    IF part.kind = "CompositeExpression" THEN Shown(part) ELSE part.text
ShownUpTo(e, n) ==
    IF n = 1 THEN "(" \o ShownPart(e.parts[1]) \o ")"
    ELSE ShownUpTo(e, n - 1) \o " " \o e.type \o " ("
         \o ShownPart(e.parts[n]) \o ")"
Shown(e) ==
    IF Len(e.parts) = 1 THEN ShownPart(e.parts[1])
    ELSE ShownUpTo(e, Len(e.parts))

\* C29: a CompositeExpression stores no empty part and no expression without
\* parts; with one part it renders as the part, with n >= 2 parts as
\* (p1) T (p2) T ... T (pn), nested expressions rendered recursively.
C29_CompositeRendering ==
    /\ NothingEmpty(cexpr)
    /\ Len(cexpr.parts) >= 1 => ret.sql = <<Shown(cexpr)>>
\* An expression of two parts, the first an expression of two parts, built
\* from parts some of which were empty.
C29_Witness ==
    /\ ret.sql = <<"((p) AND (q)) OR (p)">>
    /\ cexpr.type = "OR"
    /\ Len(cexpr.parts) = 2

\* ---- Connection: commit after a rollback that only set the flag ----
\* The call of this step is a commit() that follows a rollback() which,
\* outside savepoint mode, decremented nesting and set rollback_only.
CommitAfterFlaggingRollback ==
    /\ last'.op = "commit"
    /\ last.op = "rollback"
    /\ last.err = "none"
    /\ ~TheConn.nest_with_savepoints
    /\ TheConn.rollback_only
    /\ TheConn.nesting >= 1

\* C30 as stated: such a commit at the outer frame still runs the commit of
\* the driver, and checks the flag after it.
C30_CommitThenCheck ==
    [][(CommitAfterFlaggingRollback /\ TheConn.nesting = 1) =>
           "COMMIT" \in Kinds(last'.stmts)]_vars

\* C30, amended: such a commit checks the flag first: it raises
\* commit-failed-rollback-only, sends nothing to the driver, does not
\* reconnect, and leaves the connection as it was.
C30_FlagCheckedFirst ==
    [][CommitAfterFlaggingRollback =>
           /\ last'.err = "commit_failed_rollback_only"
           /\ last'.stmts = <<>>
           /\ TheConn' = TheConn]_vars
\* begin; begin; rollback; commit without savepoints: the commit has been
\* refused at level 1 with nothing sent but the BEGIN.
C30_Witness ==
    /\ scenario.n = Len(Scenario)
    /\ scenario.stmts = <<BEGIN_>>
    /\ last.op = "commit"
    /\ last.stmts = <<>>
    /\ last.err = "commit_failed_rollback_only"
    /\ TheConn.rollback_only
    /\ TheConn.nesting = 1

\* ---- SafeConnection: progress ----
\* The steps a thread takes by itself once it has LOCK or a connection; the
\* scope bodies end (Unlock), which is the premise of C31.
Proceeding(t) ==
    /\ UNCHANGED <<TextVars, OtherVars>>
    /\ \/ ScanFree(t)
       \/ ScanLocked(t)
       \/ PoolFull(t)
       \/ Sleep(t)
       \/ ScanAgain(t)
       \/ NewConnection(t)
       \/ Lock(t)
       \/ Unlock(t)
\* Entering `with SafeConnection.LOCK`.
Entering(t) == UNCHANGED <<TextVars, OtherVars>> /\ AcquireLock(t)

\* Fair scheduling: a thread that can run does run, and a thread that asks
\* for LOCK again and again while it is free again and again gets it.
SpecFair ==
    /\ Init
    /\ [][Next]_vars
    /\ \A t \in Threads : WF_vars(Proceeding(t)) /\ SF_vars(Entering(t))

\* C31: under fair scheduling, with every locked() scope left eventually, a
\* thread that calls locked() gets LOCK, a thread that has LOCK obtains a
\* connection unless the constructor of a new one raises, and a thread that
\* waits for a connection of a full pool obtains one.
C31_EventuallyConnection ==
    \A t \in Threads :
        /\ (pc[t] = "idle") ~> (pc[t] = "scan")
        /\ (pc[t] = "scan") ~> (pc[t] \in {"got", "idle"})
        /\ (pc[t] \in {"sleep", "rescan"}) ~> (pc[t] = "got")
\* A thread waits for a connection of a pool at capacity while another
\* thread is in its scope.
C31_Witness ==
    \E t, u \in Threads :
        /\ pc[t] = "sleep"
        /\ pc[u] = "body"
        /\ pool_size = params.pool_max_size
        /\ \A c \in DOMAIN pool : pool[c]

\* ---- SchemaManager.get_table ----
\* The number of calls of the schema methods and of cache.clear.
MaxSchemaCalls == 3

get_table ==
    [name |-> "get_table", co_argcount |-> 3, func_defaults |-> <<"None">>]
get_table_indexes ==
    [name |-> "get_table_indexes", co_argcount |-> 3,
     func_defaults |-> <<"None">>]
get_table_foreign_keys ==
    [name |-> "get_table_foreign_keys", co_argcount |-> 3,
     func_defaults |-> <<"None">>]
\* The methods that introspect the database through the platform.
Introspections ==
    {get_table_columns, get_table_indexes, get_table_foreign_keys}
TableNames == {"t", "u"}

\* BasePlatform.is_foreign_keys_supported; no platform overrides it.
is_foreign_keys_supported == TRUE

\* The body of get_table, run on cache c after runs introspections: the
\* three lists are asked for with the positional arguments only, so with
\* _cache left at its default.  An introspection is identified by its number,
\* and a Table by the lists it is made of.
get_table_body(c, table, database, runs) ==
    LET args == <<"self", table, database>>
        columns == wrapper(c, get_table_columns, args, TRUE, runs + 1)
        runs1 == IF columns.computed THEN runs + 1 ELSE runs
        indexes == wrapper(columns.cache, get_table_indexes, args, TRUE,
                           runs1 + 1)
        runs2 == IF indexes.computed THEN runs1 + 1 ELSE runs1
        foreign_keys == wrapper(indexes.cache, get_table_foreign_keys, args,
                                TRUE, runs2 + 1)
        runs3 == IF foreign_keys.computed THEN runs2 + 1 ELSE runs2
    IN  IF is_foreign_keys_supported
        THEN [cache |-> foreign_keys.cache, runs |-> runs3,
              value |-> <<columns.value, indexes.value, foreign_keys.value>>]
        ELSE [cache |-> indexes.cache, runs |-> runs2,
              value |-> <<columns.value, indexes.value, 0>>]

\* get_table(table, _cache=use_cache) through the wrapper of cached(): with
\* _cache=False the entry of get_table is deleted and the body is run; else
\* the entry is returned, or the body is run and its Table is stored.
get_table_call(c, table, use_cache, runs) ==
    LET args == <<"self", table>>
        key == cache_key(get_table, args)
        body == get_table_body(IF use_cache THEN c ELSE cache_delitem(c, key),
                               table, "None", runs)
    IN  IF use_cache /\ CacheIndex(c, key) # 0
        THEN [cache |-> cache_getitem(c, key).cache, runs |-> runs,
              value |-> cache_getitem(c, key).value]
        ELSE IF use_cache
        THEN [cache |-> wrapper(body.cache, get_table, args, TRUE,
                                body.value).cache,
              runs |-> body.runs, value |-> body.value]
        ELSE body

NoSchemaRet ==
    [op |-> "none", table |-> "t", use_cache |-> TRUE, value |-> <<>>,
     runs |-> 0]

InitSchema ==
    /\ NoConnection
    /\ sb = SQLBuilder("sqlite", <<>>)
    /\ query = NoQuery
    /\ calls = 0
    /\ drv = BaseDriver("sqlite")
    /\ client = NoClient
    /\ cache \in {EmptyCache(lru) : lru \in BOOLEAN}
    /\ cexpr = Composite("AND", <<>>)
    /\ ret = NoSchemaRet

SchemaCall(op, table, use_cache, got) ==
    /\ calls < MaxSchemaCalls
    /\ calls' = calls + 1
    /\ cache' = got.cache
    /\ ret' = [op |-> op, table |-> table, use_cache |-> use_cache,
               value |-> got.value, runs |-> got.runs]
    /\ UNCHANGED <<ConnVars, sb, query, drv, client, cexpr>>

\* manager.get_table(table) and manager.get_table(table, _cache=False)
GetTable ==
    \E table \in TableNames, use_cache \in BOOLEAN :
        SchemaCall("get_table", table, use_cache,
                   get_table_call(cache, table, use_cache, ret.runs))

\* manager.get_table_columns(table), get_table_indexes(table) and
\* get_table_foreign_keys(table), with and without _cache=False
GetTableList ==
    \E func \in Introspections, table \in TableNames, use_cache \in BOOLEAN :
        LET w == wrapper(cache, func, <<"self", table>>, use_cache,
                         ret.runs + 1)
        IN  SchemaCall(func.name, table, use_cache,
                       [cache |-> w.cache, value |-> <<w.value>>,
                        runs |-> IF w.computed THEN ret.runs + 1
                                 ELSE ret.runs])

\* cache.clear()
SchemaCacheClear ==
    SchemaCall("clear", "t", TRUE,
               [cache |-> [cache EXCEPT !.entries = <<>>], value |-> <<>>,
                runs |-> ret.runs])

NextSchema ==
    \/ GetTable
    \/ GetTableList
    \/ SchemaCacheClear

SpecSchema == InitSchema /\ [][NextSchema]_vars

\* C32: the Table that get_table(name, _cache=False) returns is made of
\* columns, indexes and foreign keys introspected during the call, none of
\* them a list that was computed before the call.
C32_BypassIsFresh ==
    [][(ret'.op = "get_table" /\ ~ret'.use_cache) =>
           \A i \in 1..3 : ret'.value[i] > ret.runs]_vars

\* ---- SQLBuilder._get_from_clauses, step by step ----
\* A SELECT builder with up to MaxTraversalFrom tables and up to
\* MaxTraversalJoins joins between the aliases a, b and c: chains, joins of
\* an alias to itself and cycles are among them.
MaxTraversalFrom == 2
MaxTraversalJoins == 2
TraversalAliases == {"a", "b", "c"}

\* The activation of _get_sql_for_joins(from_alias, known_aliases): loop is
\* 1 in the loop that declares the joins and 2 in the loop that follows
\* them, i is the index of the join the loop is at.
Frame(from_alias) == [from_alias |-> from_alias, loop |-> 1, i |-> 1]
\* self._sql_parts["join"][from_alias], empty when from_alias is no key.
joins_of(b, from_alias) ==
    IF Bucket(b._sql_parts.join, from_alias) = 0 THEN <<>>
    ELSE b._sql_parts.join[Bucket(b._sql_parts.join, from_alias)][2]

\* Mutant: the second loop stays at the join it has followed.
followed_again(frame) == frame
\* The second loop goes on to the next join of the list.
followed(frame) == [frame EXCEPT !.i = @ + 1]

NoTraversal ==
    [op |-> "none", stack |-> <<>>, known_aliases |-> {}, from_i |-> 1,
     err |-> "none", entered |-> <<>>]

InitTraversal ==
    /\ NoConnection
    /\ NoDriver
    /\ query = NoQuery
    /\ calls = 0
    /\ ret = NoTraversal
    /\ sb = SQLBuilder("sqlite", <<"a", "b", "c">>)

Traversed(r) ==
    /\ ret' = r
    /\ UNCHANGED <<ConnVars, OtherVars, query, calls, sb>>
Top == ret.stack[Len(ret.stack)]
ReplaceTop(frame) == [ret.stack EXCEPT ![Len(ret.stack)] = frame]

\* builder.from_("t", alias)
TraversalFrom ==
    /\ ret.op = "none"
    /\ Len(sb._sql_parts.from) < MaxTraversalFrom
    /\ \E alias \in {"a", "b"} : sb' = from_(sb, "t", alias)
    /\ UNCHANGED <<ConnVars, OtherVars, query, calls, ret>>

\* builder.inner_join(from_alias, "u", alias, "c")
TraversalJoin ==
    /\ ret.op = "none"
    /\ Len(JoinList(sb._sql_parts.join)) < MaxTraversalJoins
    /\ \E from_alias \in TraversalAliases, alias \in TraversalAliases :
           sb' = join_(sb, "inner", from_alias, "u", alias, <<<<"c">>>>)
    /\ UNCHANGED <<ConnVars, OtherVars, query, calls, ret>>

\* get_sql() enters _get_from_clauses.
EnterFromClauses ==
    /\ ret.op = "none"
    /\ Traversed([NoTraversal EXCEPT !.op = "running"])

\* The loop over the "from" part: the table reference is added to
\* known_aliases and _get_sql_for_joins is called for it.
FromEntry ==
    /\ ret.op = "running"
    /\ ret.stack = <<>>
    /\ ret.from_i <= Len(sb._sql_parts.from)
    /\ LET table_reference == FromRefs(sb)[ret.from_i]
       IN  Traversed([ret EXCEPT
               !.known_aliases = @ \cup {table_reference},
               !.stack = <<Frame(table_reference)>>,
               !.entered = Append(@, table_reference),
               !.from_i = @ + 1])

\* The first loop of _get_sql_for_joins at a join: non_unique_alias is
\* raised for a known alias, else the alias is added to known_aliases.
Declare ==
    /\ ret.op = "running"
    /\ ret.stack # <<>>
    /\ Top.loop = 1
    /\ Top.i <= Len(joins_of(sb, Top.from_alias))
    /\ LET alias == joins_of(sb, Top.from_alias)[Top.i][3]
       IN  IF alias \in ret.known_aliases
           THEN Traversed([ret EXCEPT !.op = "raised",
                                      !.err = "non_unique_alias",
                                      !.stack = <<>>])
           ELSE Traversed([ret EXCEPT
                    !.known_aliases = @ \cup {alias},
                    !.stack = ReplaceTop([Top EXCEPT !.i = @ + 1])])

\* The first loop ends and the second begins.
Declared ==
    /\ ret.op = "running"
    /\ ret.stack # <<>>
    /\ Top.loop = 1
    /\ Top.i > Len(joins_of(sb, Top.from_alias))
    /\ Traversed([ret EXCEPT
           !.stack = ReplaceTop([Top EXCEPT !.loop = 2, !.i = 1])])

\* The second loop at a join: the recursive call for the alias of the join.
Follow ==
    /\ ret.op = "running"
    /\ ret.stack # <<>>
    /\ Top.loop = 2
    /\ Top.i <= Len(joins_of(sb, Top.from_alias))
    /\ LET alias == joins_of(sb, Top.from_alias)[Top.i][3]
       IN  Traversed([ret EXCEPT
               !.stack = Append(ReplaceTop(followed(Top)), Frame(alias)),
               !.entered = Append(@, alias)])

\* return sql
Return ==
    /\ ret.op = "running"
    /\ ret.stack # <<>>
    /\ Top.loop = 2
    /\ Top.i > Len(joins_of(sb, Top.from_alias))
    /\ Traversed([ret EXCEPT !.stack = SubSeq(@, 1, Len(@) - 1)])

\* After the loop over the "from" part: unknown_alias is raised for a key
\* of the "join" dict that is not known, else from_clauses is returned.
CheckSources ==
    /\ ret.op = "running"
    /\ ret.stack = <<>>
    /\ ret.from_i > Len(sb._sql_parts.from)
    /\ IF \E i \in 1..Len(sb._sql_parts.join) :
              sb._sql_parts.join[i][1] \notin ret.known_aliases
       THEN Traversed([ret EXCEPT !.op = "raised", !.err = "unknown_alias"])
       ELSE Traversed([ret EXCEPT !.op = "returned"])

Traverse ==
    \/ FromEntry
    \/ Declare
    \/ Declared
    \/ Follow
    \/ Return
    \/ CheckSources

NextTraversal ==
    \/ TraversalFrom
    \/ TraversalJoin
    \/ EnterFromClauses
    \/ Traverse

\* The interpreter goes on with a call that is in progress.
SpecTraversal ==
    InitTraversal /\ [][NextTraversal]_vars /\ WF_vars(Traverse)

\* C33: _get_from_clauses, once entered, returns the clauses or raises
\* unknown_alias or non_unique_alias, whatever the joins are; the recursion
\* is never deeper than the number of aliases known and enters
\* _get_sql_for_joins once per from entry and once per join at most; the
\* outcome is the one of the function as a whole.
C33_TraversalTerminates ==
    /\ (ret.op = "running") ~> (ret.op \in {"returned", "raised"})
    /\ [](/\ Len(ret.stack) <= Cardinality(ret.known_aliases)
          /\ Len(ret.entered) <= Len(sb._sql_parts.from)
                                   + Len(JoinList(sb._sql_parts.join))
          /\ ret.op = "raised" =>
                 /\ ret.err \in {"unknown_alias", "non_unique_alias"}
                 /\ ret.err = _get_from_clauses(sb).err
          /\ ret.op = "returned" => _get_from_clauses(sb).err = "none")
\* The traversal has ended with non_unique_alias where a joins b and b
\* joins a.
C33_Witness ==
    /\ ret.op = "raised"
    /\ ret.err = "non_unique_alias"
    /\ JoinList(sb._sql_parts.join) = <<<<"a", "b">>, <<"b", "a">>>>
    /\ ret.entered = <<"a", "b">>

\* ---- Connection.transaction: the nesting level ----
\* The step ends a transaction(callback) of thread t whose callback has left
\* the nesting level as it found it.
EndsBalancedCallback(t) ==
    /\ txn[t].active
    /\ ~txn'[t].active
    /\ Mine(t).nesting = txn[t].found

\* C34: when the callback leaves the nesting level as it found it, the
\* nesting level when transaction(callback) returns or raises is the one
\* before the call.
C34_TransactionBalanced ==
    [][\A t \in Threads :
           EndsBalancedCallback(t) =>
               conn'[held[t]].nesting = txn[t].entry]_vars

\* ---- begin_transaction, commit and rollback: a failing driver ----
\* C35: when the driver call or the savepoint call made by
\* begin_transaction, commit or rollback raises, the nesting level and the
\* rollback-only flag of the connection are what they were before the call.
C35_FailedCallChangesNothing ==
    [][\A t \in Threads :
           (/\ Holding(t)
            /\ last'.op \in {"begin_transaction", "commit", "rollback"}
            /\ last'.err = "driver_error") =>
               /\ conn'[held[t]].nesting = conn[held[t]].nesting
               /\ conn'[held[t]].rollback_only =
                      conn[held[t]].rollback_only]_vars

\* ---- the nesting level and the session of the driver ----
\* C36: whenever the nesting level of a connection is above 0 and its driver
\* is connected, the session the driver has now has a transaction open.
C36_SessionInTransaction ==
    \A c \in ConnIds :
        (conn[c].nesting > 0 /\ conn[c].connected) => conn[c].in_transaction

\* ---- iterators of two statements ----
\* C37: when an iterate() generator runs out, the only cursor that is closed
\* is the one it iterated over, also when a later statement has been
\* executed in the meantime.
C37_OwnCursorReleased ==
    [][ret'.op = "iterated" =>
           client.cursors \ client'.cursors
               \subseteq client.iterating \ client'.iterating]_vars

\* ---- SQLBuilder.copy ----
\* The number of calls made on the builder and on its copy.
MaxCopyCalls == 4

\* Objects: the dict of the SQL parts and the dict of the parameters are
\* objects of their own, kept in a heap; a builder object holds references
\* to them in _sql_parts and _params and its other attributes (strings,
\* numbers, None) by value.
Seen(obj, heap) ==
    [obj EXCEPT !._sql_parts = heap[@], !._params = heap[@]]
\* A method has run on the builder obj and left it as b: the two dicts are
\* changed in place, the other attributes are assigned.
Kept(obj, b) ==
    [b EXCEPT !._sql_parts = obj._sql_parts, !._params = obj._params]
Stored(obj, b, heap) ==
    [heap EXCEPT ![obj._sql_parts] = b._sql_parts,
                 ![obj._params] = b._params]

\* copy.copy(self) of an instance: a new instance whose __dict__ has the
\* values of the attributes of self, so the references to the same dicts.
copy(obj) == obj

NoCopyRet(b) ==
    [op |-> "none", who |-> 0, err |-> "none",
     heap |-> <<b._sql_parts, b._params>>,
     builders |-> <<[b EXCEPT !._sql_parts = 1, !._params = 2]>>]

InitCopy ==
    /\ NoConnection
    /\ NoDriver
    /\ query = NoQuery
    /\ calls = 0
    /\ sb = SQLBuilder("sqlite", <<"t", "a">>)
    /\ ret = NoCopyRet(sb)

\* The builder who (1 the original, 2 its copy), as its methods see it.
Builder(who) == Seen(ret.builders[who], ret.heap)

\* The method op has run on builder who and left it as b.
CopyCalled(op, who, b, err) ==
    /\ calls < MaxCopyCalls
    /\ calls' = calls + 1
    /\ LET heap == Stored(ret.builders[who], b, ret.heap)
           builders == [ret.builders EXCEPT ![who] = Kept(@, b)]
       IN  /\ ret' = [op |-> op, who |-> who, err |-> err, heap |-> heap,
                      builders |-> builders]
           /\ sb' = Seen(builders[1], heap)
    /\ UNCHANGED <<ConnVars, OtherVars, query>>

\* twin = builder.copy()
CopyBuilder ==
    /\ calls < MaxCopyCalls
    /\ calls' = calls + 1
    /\ Len(ret.builders) = 1
    /\ ret' = [ret EXCEPT !.op = "copy", !.who = 1,
                          !.builders = Append(@, copy(@[1]))]
    /\ UNCHANGED <<ConnVars, OtherVars, query, sb>>

CopySelect ==
    \E who \in DOMAIN ret.builders, column \in {"x", "y"} :
        CopyCalled("select", who, select(Builder(who), <<<<column>>>>),
                   "none")
CopyFrom ==
    \E who \in DOMAIN ret.builders, table \in {"t", "u"} :
        CopyCalled("from_", who, from_(Builder(who), table, None), "none")
CopyWhere ==
    \E who \in DOMAIN ret.builders, predicate \in {"p", "q"} :
        CopyCalled("where", who,
                   where(Builder(who), "where", <<<<predicate>>>>), "none")
CopySetMaxResults ==
    \E who \in DOMAIN ret.builders :
        CopyCalled("set_max_results", who,
                   set_max_results(Builder(who), <<1>>), "none")
CopyCreatePositionalParameter ==
    \E who \in DOMAIN ret.builders :
        CopyCalled("create_positional_parameter", who,
                   create_positional_parameter(Builder(who), NewValue(0)).b,
                   "none")
CopyGetSql ==
    \E who \in DOMAIN ret.builders :
        CopyCalled("get_sql", who, get_sql(Builder(who)).b,
                   get_sql(Builder(who)).err)

NextCopy ==
    \/ CopyBuilder
    \/ CopySelect
    \/ CopyFrom
    \/ CopyWhere
    \/ CopySetMaxResults
    \/ CopyCreatePositionalParameter
    \/ CopyGetSql

SpecCopy == InitCopy /\ [][NextCopy]_vars

\* What get_sql() of builder b would return.
SqlOf(b) == [sql |-> get_sql(b).sql, err |-> get_sql(b).err]
\* The parts, the parameters and the get_sql() result of builder who in the
\* state before and after the step.
Observed(builders, heap, who) ==
    LET b == Seen(builders[who], heap)
    IN  [parts |-> b._sql_parts, params |-> b._params, sql |-> SqlOf(b)]

\* C38: a mutator applied to one of the builder and its copy leaves the
\* parts, the parameters and the get_sql() result of the other unchanged.
C38_CopyIndependent ==
    [][(Len(ret.builders) = 2 /\ ret'.op \notin {"copy", "get_sql"}) =>
           Observed(ret'.builders, ret'.heap, 3 - ret'.who)
               = Observed(ret.builders, ret.heap, 3 - ret'.who)]_vars

\* ---- Connection.set_transaction_isolation ----
\* The number of calls made on the connection.
MaxIsolationCalls == 3
TRANSACTION_READ_UNCOMMITTED == 1
TRANSACTION_READ_COMMITTED == 2
TRANSACTION_REPEATABLE_READ == 3
TRANSACTION_SERIALIZABLE == 4
DefinedLevels ==
    {TRANSACTION_READ_UNCOMMITTED, TRANSACTION_READ_COMMITTED,
     TRANSACTION_REPEATABLE_READ, TRANSACTION_SERIALIZABLE}
\* The levels given: the defined ones, one below and one above.
GivenLevels == 0..5

\* _get_transaction_isolation_sql of BasePlatform, which MySQLPlatform
\* inherits, and of SQLitePlatform: <<>> stands for the exception.
_get_transaction_isolation_sql(platform, level) ==
    IF platform = "sqlite"
    THEN IF level = TRANSACTION_READ_UNCOMMITTED THEN <<0>>
         ELSE IF level \in {TRANSACTION_READ_COMMITTED,
                            TRANSACTION_REPEATABLE_READ,
                            TRANSACTION_SERIALIZABLE} THEN <<1>>
         ELSE <<>>
    ELSE IF level = TRANSACTION_READ_UNCOMMITTED THEN <<"READ UNCOMMITTED">>
    ELSE IF level = TRANSACTION_READ_COMMITTED THEN <<"READ COMMITTED">>
    ELSE IF level = TRANSACTION_REPEATABLE_READ THEN <<"REPEATABLE READ">>
    ELSE IF level = TRANSACTION_SERIALIZABLE THEN <<"SERIALIZABLE">>
    ELSE <<>>

\* set_transaction_isolation of the platform: the statement is put together
\* before the driver is called; SQLitePlatform adds a number to a string,
\* which raises TypeError.  o is the outcome of the driver call.
platform_set_transaction_isolation(platform, level, o) ==
    LET sql == _get_transaction_isolation_sql(platform, level)
    IN  IF sql = <<>>
        THEN [err |-> "invalid_isolation_level", stmts |-> <<>>]
        ELSE IF platform = "sqlite"
        THEN [err |-> "TypeError", stmts |-> <<>>]
        ELSE [err |-> o,
              stmts |-> <<<<"SET SESSION TRANSACTION ISOLATION LEVEL ",
                            sql[1]>>>>]

\* The connection: _transaction_isolation_level (<<>> is None), whether the
\* driver is connected, and auto_connect.
IsolationRet(op, level, c, r) ==
    [op |-> op, level |-> level, c |-> c, err |-> r.err, stmts |-> r.stmts,
     got |-> r.got]
NoOutcome == [err |-> "none", stmts |-> <<>>, got |-> 0]

\* Connection.set_transaction_isolation(level); connecting is the outcome of
\* the connect that ensure_connected makes if it makes one.
set_transaction_isolation(c, level, connecting, o) ==
    IF ~c.connected /\ ~c.auto_connect
    THEN [c |-> c, r |-> [NoOutcome EXCEPT !.err = "connection_closed"]]
    ELSE IF ~c.connected /\ connecting # "none"
    THEN [c |-> c, r |-> [NoOutcome EXCEPT !.err = connecting]]
    ELSE LET c1 == [c EXCEPT !.connected = TRUE,
                             !._transaction_isolation_level = <<level>>]
             p == platform_set_transaction_isolation(c.platform, level, o)
         IN  [c |-> c1, r |-> [NoOutcome EXCEPT !.err = p.err,
                                                !.stmts = p.stmts]]

\* Connection.get_transaction_isolation()
get_transaction_isolation(c) ==
    LET c1 == IF c._transaction_isolation_level = <<>>
              THEN [c EXCEPT !._transaction_isolation_level =
                                 <<TRANSACTION_READ_COMMITTED>>]
              ELSE c
    IN  [c |-> c1,
         r |-> [NoOutcome EXCEPT
                    !.got = c1._transaction_isolation_level[1]]]

InitIsolation ==
    /\ NoConnection
    /\ NoDriver
    /\ query = NoQuery
    /\ calls = 0
    /\ sb = SQLBuilder("sqlite", <<>>)
    /\ \E platform \in Platforms, connected, auto_connect \in BOOLEAN :
           ret = IsolationRet("none", 0,
                              [platform |-> platform, connected |-> connected,
                               auto_connect |-> auto_connect,
                               _transaction_isolation_level |-> <<>>],
                              NoOutcome)

IsolationCall(op, level, x) ==
    /\ calls < MaxIsolationCalls
    /\ calls' = calls + 1
    /\ ret' = IsolationRet(op, level, x.c, x.r)
    /\ UNCHANGED <<ConnVars, OtherVars, query, sb>>

SetTransactionIsolation ==
    \E level \in GivenLevels, connecting \in {"none", "driver_exception"},
       o \in {"none", "execute_exception"} :
        IsolationCall("set_transaction_isolation", level,
                      set_transaction_isolation(ret.c, level, connecting, o))
GetTransactionIsolation ==
    IsolationCall("get_transaction_isolation", 0,
                  get_transaction_isolation(ret.c))
\* Connection.close()
IsolationClose ==
    IsolationCall("close", 0,
                  [c |-> [ret.c EXCEPT !.connected = FALSE], r |-> NoOutcome])

NextIsolation ==
    \/ SetTransactionIsolation
    \/ GetTransactionIsolation
    \/ IsolationClose

SpecIsolation == InitIsolation /\ [][NextIsolation]_vars

\* C39: set_transaction_isolation(level) with a level that is none of the
\* four defined ones, on a connection that is or gets connected, raises
\* invalid_isolation_level, gives the driver no statement, and leaves what
\* get_transaction_isolation() returns as it was.
C39_InvalidLevelChangesNothing ==
    [][(/\ ret'.op = "set_transaction_isolation"
        /\ ret'.level \notin DefinedLevels
        /\ ret'.c.connected) =>
           /\ ret'.err = "invalid_isolation_level"
           /\ ret'.stmts = <<>>
           /\ get_transaction_isolation(ret'.c).r.got
                  = get_transaction_isolation(ret.c).r.got]_vars

====
